---- MODULE Spec2Model ----
(***************************************************************************)
(* A model of the lun bytecode virtual machine (crates/lun_vm/src/lib.rs). *)
(*                                                                         *)
(* A DWord (u64) is kept at its full width.  TLC's integers are 32 bits,   *)
(* so a DWord is a tuple of four 16-bit limbs, least significant first:    *)
(* <<l0, l1, l2, l3>> stands for l0 + l1*2^16 + l2*2^32 + l3*2^48.         *)
(***************************************************************************)
EXTENDS Integers, Sequences, FiniteSets, TLC

(***************************************************************************)
(* Program constants.                                                      *)
(***************************************************************************)
XLEN == 64

CANARY_SIZE == 1024

SPECIAL_END == 255

PROGRAM_START == SPECIAL_END + 1

NREGS == 16

\* Reg::sp, the register the VM uses as the stack pointer.
SP == 15

\* enum Size { Byte = 1, Half = 2, Word = 4, Double = 8 }
Byte == 1

Half == 2

Word == 4

Double == 8

Sizes == {Byte, Half, Word, Double}

(***************************************************************************)
(* u64 arithmetic on limbs.                                                *)
(***************************************************************************)
LimbBase == 2^16

Limbs == XLEN \div 16

\* A small natural number (below 2^31) as a DWord: `n as DWord`.
FromInt(n) == <<n % LimbBase, n \div LimbBase, 0, 0>>

Zero == FromInt(0)

\* Whether a DWord is small enough to be used as a TLC integer (a usize index).
FitsInt(v) == v[3] = 0 /\ v[4] = 0 /\ v[2] < 2^14

ToInt(v) == v[1] + v[2] * LimbBase

\* a + b with the carry out of bit 63.
AddCarry(a, b) ==
    LET s1 == a[1] + b[1]
        s2 == a[2] + b[2] + (s1 \div LimbBase)
        s3 == a[3] + b[3] + (s2 \div LimbBase)
        s4 == a[4] + b[4] + (s3 \div LimbBase)
    IN  [val   |-> <<s1 % LimbBase, s2 % LimbBase, s3 % LimbBase, s4 % LimbBase>>,
         carry |-> s4 \div LimbBase]

\* a - b with the borrow out of bit 63.
SubBorrow(a, b) ==
    LET d1 == a[1] - b[1]
        b1 == IF d1 < 0 THEN 1 ELSE 0
        d2 == a[2] - b[2] - b1
        b2 == IF d2 < 0 THEN 1 ELSE 0
        d3 == a[3] - b[3] - b2
        b3 == IF d3 < 0 THEN 1 ELSE 0
        d4 == a[4] - b[4] - b3
        b4 == IF d4 < 0 THEN 1 ELSE 0
    IN  [val    |-> <<d1 + b1 * LimbBase, d2 + b2 * LimbBase,
                      d3 + b3 * LimbBase, d4 + b4 * LimbBase>>,
         borrow |-> b4]

\* u64::wrapping_add
WrappingAdd(a, b) == AddCarry(a, b).val

\* u64::wrapping_sub
WrappingSub(a, b) == SubBorrow(a, b).val

\* a < b on u64
Lt(a, b) ==
    \/ a[4] < b[4]
    \/ a[4] = b[4] /\ a[3] < b[3]
    \/ a[4] = b[4] /\ a[3] = b[3] /\ a[2] < b[2]
    \/ a[4] = b[4] /\ a[3] = b[3] /\ a[2] = b[2] /\ a[1] < b[1]

\* a >= b on u64
Ge(a, b) == ~Lt(a, b)

\* a <= b on u64
Le(a, b) == ~Lt(b, a)

\* The 8 bytes of a DWord, most significant first (u64::to_be_bytes): the
\* byte order the memory must not use.
ToBeBytes(v) ==
    [i \in 1..8 |->
        IF (8 - i) % 2 = 0 THEN v[((8 - i) \div 2) + 1] % 256
        ELSE v[((8 - i) \div 2) + 1] \div 256]

\* The 8 bytes of a DWord, least significant first: u64::to_le_bytes.
ToLeBytes(v) ==
    [i \in 1..8 |->
        LET limb == v[((i - 1) \div 2) + 1]
        IN  IF (i - 1) % 2 = 0 THEN limb % 256 ELSE limb \div 256]

\* uN::from_le_bytes(bytes) as DWord, for a slice of 1, 2, 4 or 8 bytes:
\* byte i (counting from 0) has weight 256^i; the missing high bytes are 0.
FromLeBytes(bytes) ==
    LET b(i) == IF i <= Len(bytes) THEN bytes[i] ELSE 0
    IN  <<b(1) + 256 * b(2), b(3) + 256 * b(4),
          b(5) + 256 * b(6), b(7) + 256 * b(8)>>

\* `value as u8`, `as u16`, `as u32`, `as u64` followed by to_le_bytes():
\* the low `size` bytes of the value, least significant first.
TruncToLeBytes(v, size) == SubSeq(ToLeBytes(v), 1, size)

\* `v as u16` / `v as u32` / `v as u64` widened back to a DWord.
TruncBits(v, size) == FromLeBytes(TruncToLeBytes(v, size))

\* u64::wrapping_mul: schoolbook multiplication on the bytes, columns 0..7.
RECURSIVE MulColumns(_, _, _, _)
MulColumns(ab, bb, k, carry) ==
    IF k > 8 THEN <<>>
    ELSE LET RECURSIVE ColSum(_)
             ColSum(i) == IF i > k THEN 0 ELSE ab[i] * bb[k + 1 - i] + ColSum(i + 1)
             t == ColSum(1) + carry
         IN  <<t % 256>> \o MulColumns(ab, bb, k + 1, t \div 256)

WrappingMul(a, b) == FromLeBytes(MulColumns(ToLeBytes(a), ToLeBytes(b), 1, 0))

\* Bit i (0..63) of a DWord.
BitAt(v, i) == (v[(i \div 16) + 1] \div (2^(i % 16))) % 2

\* Long division, one bit at a time.  DivBits brings down bits lo+7 .. i of a
\* into the running remainder st.r and sets the quotient bits in st.q.
RECURSIVE DivBits(_, _, _, _, _)
DivBits(st, a, b, i, lo) ==
    IF i > lo + 7 THEN st
    ELSE LET prev == DivBits(st, a, b, i + 1, lo)
             dbl  == AddCarry(prev.r, prev.r)
             sh   == AddCarry(dbl.val, FromInt(BitAt(a, i)))
             over == dbl.carry = 1 \/ Ge(sh.val, b)
         IN  [q |-> IF over
                    THEN [prev.q EXCEPT ![(i \div 16) + 1] = @ + 2^(i % 16)]
                    ELSE prev.q,
              r |-> IF over THEN WrappingSub(sh.val, b) ELSE sh.val]

\* The quotient and remainder of (a >> 8k) by b # 0, a byte of a at a time from
\* the most significant; at k = 0, a = q*b + r.  The remainder so far is
\* always below the divisor; testing it settles st before the next byte.
RECURSIVE DivFrom(_, _, _)
DivFrom(a, b, k) ==
    IF k >= XLEN \div 8 THEN [q |-> Zero, r |-> Zero]
    ELSE LET st == DivFrom(a, b, k + 1)
         IN  IF Lt(st.r, b) THEN DivBits(st, a, b, 8 * k, 8 * k) ELSE st

\* u64::wrapping_div for a non-zero divisor.
WrappingDiv(a, b) == DivFrom(a, b, 0).q

\* u64::wrapping_rem for a non-zero divisor.
WrappingRem(a, b) == DivFrom(a, b, 0).r

\* A bitwise operator on one 16-bit limb; f gives the result bit.
RECURSIVE LimbBits(_, _, _, _)
LimbBits(f, p, q, n) ==
    IF n = 0 THEN 0
    ELSE f[<<p % 2, q % 2>>] + 2 * LimbBits(f, p \div 2, q \div 2, n - 1)

AndBit == [t \in {0, 1} \X {0, 1} |-> IF t[1] = 1 /\ t[2] = 1 THEN 1 ELSE 0]

OrBit == [t \in {0, 1} \X {0, 1} |-> IF t[1] = 1 \/ t[2] = 1 THEN 1 ELSE 0]

XorBit == [t \in {0, 1} \X {0, 1} |-> IF t[1] # t[2] THEN 1 ELSE 0]

BitwiseOp(f, a, b) == [i \in 1..Limbs |-> LimbBits(f, a[i], b[i], 16)]

(***************************************************************************)
(* The state of a Vm, and of the thread that drives it.                    *)
(***************************************************************************)
VARIABLES
    x,                \* Vm.x: the 16 backing slots of the register file
    pc,               \* Vm.pc
    program_end,      \* Vm.program_end
    stack_bottom,     \* Vm.stack_bottom
    canary_end,       \* Vm.canary_end
    program,          \* Vm.program.code: the bytes of the program image
    stack,            \* Vm.stack: the bytes of the stack buffer
    done,             \* Vm.done
    panic,            \* the message of the panic that unwound the caller, or NoPanic
    overflow_checks,  \* the build profile: whether +, -, += and -= panic on overflow
    hist,             \* the latest calls of step, run and write, newest first,
                      \* each with the state it was made in
    last_read,        \* the call of read made since hist[1], if any, and its result
    reg_reads,        \* the register reads (index, value) made by the last step
    ast,              \* the raw AST handed to from_ast, or NoAst
    ckast             \* the checked AST that from_ast returned, or NoAst

vars == <<x, pc, program_end, stack_bottom, canary_end, program, stack, done,
          panic, overflow_checks, hist, last_read, reg_reads, ast, ckast>>

NoPanic == ""

PanicReadSpecial == "cannot read special region."

PanicWriteSpecial == "cannot write to special region."

PanicWriteProgram == "cannot write to program region."

PanicUnknownAddress == "unknown address"

PanicSliceIndex == "range end index out of range for slice"

PanicInvalidInstruction == "invalid instruction exception"

PanicUnwrapNone == "called Option::unwrap() on a None value"

PanicBitwiseFloat == "cannot perform bitwise operation on floating point number"

PanicDivZero == "attempt to divide by zero"

PanicRemZero == "attempt to calculate the remainder with a divisor of zero"

PanicAddOverflow == "attempt to add with overflow"

PanicSubOverflow == "attempt to subtract with overflow"

\* a + b as the build computes it: a panic under overflow checks, else wrapping.
CheckedAdd(a, b) ==
    LET r == AddCarry(a, b)
    IN  [panic |-> IF r.carry = 1 /\ overflow_checks THEN PanicAddOverflow ELSE NoPanic,
         val   |-> r.val]

\* a - b as the build computes it.
CheckedSub(a, b) ==
    LET r == SubBorrow(a, b)
    IN  [panic |-> IF r.borrow = 1 /\ overflow_checks THEN PanicSubOverflow ELSE NoPanic,
         val   |-> r.val]

\* addr + k for an address that was just read from and a small k: no overflow.
Plus(a, k) == WrappingAdd(a, FromInt(k))

(***************************************************************************)
(* Regions.                                                                *)
(***************************************************************************)
stack_top == Plus(program_end, 1)

canary_start == Plus(stack_bottom, 1)

heap_base == Plus(canary_end, 1)

\* (0..=255).contains(&addr)
InSpecial(addr) == Le(Zero, addr) /\ Le(addr, FromInt(SPECIAL_END))

\* (Self::PROGRAM_START..=self.program_end).contains(&addr)
InProgramRange(addr) == Le(FromInt(PROGRAM_START), addr) /\ Le(addr, program_end)

\* (self.stack_top()..self.stack_bottom).contains(&addr)
InStackRange(addr) == Le(stack_top, addr) /\ Lt(addr, stack_bottom)

\* A slice that stops at the end of the buffer instead of panicking.
SliceClamped(buf, addr, base, size) ==
    [panic |-> NoPanic,
     bytes |-> SubSeq(buf, ToInt(WrappingSub(addr, base)) + 1,
                      IF ToInt(WrappingSub(addr, base)) + size > Len(buf)
                      THEN Len(buf) ELSE ToInt(WrappingSub(addr, base)) + size)]

\* &buf[daddr..(daddr + size)] where daddr = addr - base: a panic when the
\* range ends past the buffer.
Slice(buf, addr, base, size) ==
    LET daddr == ToInt(WrappingSub(addr, base))
    IN  IF daddr + size > Len(buf)
        THEN [panic |-> PanicSliceIndex, bytes |-> <<>>]
        ELSE [panic |-> NoPanic, bytes |-> SubSeq(buf, daddr + 1, daddr + size)]

\* Vm::read, on stack buffer stk.
Read(stk, addr, size) ==
    IF InSpecial(addr) THEN [panic |-> PanicReadSpecial, val |-> Zero]
    ELSE IF InProgramRange(addr)
    THEN LET sl == Slice(program, addr, FromInt(PROGRAM_START), size)
         IN  [panic |-> sl.panic, val |-> FromLeBytes(sl.bytes)]
    ELSE IF InStackRange(addr)
    THEN LET sl == Slice(stk, addr, stack_top, size)
         IN  [panic |-> sl.panic, val |-> FromLeBytes(sl.bytes)]
    ELSE [panic |-> PanicUnknownAddress, val |-> Zero]

\* dest.copy_from_slice(&bytes), dest being buf[daddr..daddr+size].
CopyFromSlice(buf, daddr, bytes) ==
    [i \in 1..Len(buf) |->
        IF daddr < i /\ i <= daddr + Len(bytes) THEN bytes[i - daddr] ELSE buf[i]]

\* A write that takes any address from stack_top on as a stack address and
\* does not check the end of the buffer: the bytes past it are written too.
WriteUnchecked(stk, addr, size, value) ==
    IF InSpecial(addr) THEN [panic |-> PanicWriteSpecial, stack |-> stk]
    ELSE IF InProgramRange(addr) THEN [panic |-> PanicWriteProgram, stack |-> stk]
    ELSE IF InStackRange(addr)
    THEN [panic |-> NoPanic,
          stack |-> CopyFromSlice(stk \o [i \in 1..size |-> 0],
                                  ToInt(WrappingSub(addr, stack_top)),
                                  TruncToLeBytes(value, size))]
    ELSE [panic |-> PanicUnknownAddress, stack |-> stk]

\* Vm::write, on stack buffer stk: the new buffer, or a panic.
Write(stk, addr, size, value) ==
    IF InSpecial(addr) THEN [panic |-> PanicWriteSpecial, stack |-> stk]
    ELSE IF InProgramRange(addr) THEN [panic |-> PanicWriteProgram, stack |-> stk]
    ELSE IF InStackRange(addr)
    THEN LET sl == Slice(stk, addr, stack_top, size)
         IN  IF sl.panic # NoPanic THEN [panic |-> sl.panic, stack |-> stk]
             ELSE [panic |-> NoPanic,
                   stack |-> CopyFromSlice(stk, ToInt(WrappingSub(addr, stack_top)),
                                           TruncToLeBytes(value, size))]
    ELSE [panic |-> PanicUnknownAddress, stack |-> stk]

(***************************************************************************)
(* Registers.                                                              *)
(***************************************************************************)
\* An Index<u8> that hands out the backing slot of every register, the zero
\* register included.
RegReadBackingSlot(xs, index) == xs[index]

\* impl Index<u8> for Registers
RegRead(xs, index) == IF index = 0 THEN Zero ELSE xs[index]

\* impl IndexMut<u8> for Registers, assigned through:  x[index] = v
RegWrite(xs, index, v) == [xs EXCEPT ![index] = v]

\* impl IndexMut<u8> for Registers, read through (x[index] -= k reads the slot).
RegSlot(xs, index) == xs[index]

(***************************************************************************)
(* Opcode and AFunct (crate lun_bc): dense enumerations, in the order the  *)
(* families are listed; from_integer gives None outside the range.         *)
(***************************************************************************)
Opcodes ==
    <<"Add", "Sub", "Mul", "Div", "Rem", "Clt", "Cge", "Ceq", "Cne",
      "And", "Or", "Xor", "Call", "Ret", "Jze", "Beq", "Bne", "Blt", "Bge",
      "LdB", "LdH", "LdW", "LdD", "StB", "StH", "StW", "StD",
      "LiB", "LiH", "LiW", "LiD", "Mov", "Push", "Pop">>

OpcodeFromInteger(b) == IF b < Len(Opcodes) THEN Opcodes[b + 1] ELSE "None"

AFuncts == <<"X", "F16", "F32", "F64">>

AFunctFromInteger(n) == IF n < Len(AFuncts) THEN AFuncts[n + 1] ELSE "None"

\* The width in bytes of the float a funct names.
FloatSize(funct) ==
    CASE funct = "F16" -> Half
      [] funct = "F32" -> Word
      [] funct = "F64" -> Double

(***************************************************************************)
(* One step works on a record s of the fields a step can change:           *)
(*   s.x, s.pc, s.stack, the panic that ended it (s.panic) and the         *)
(*   register reads it made (s.reads).                                     *)
(***************************************************************************)
Panicked(s, msg) == [s EXCEPT !.panic = msg]

\* A panic raised while the Vm is as s, or else what follows.
OrPanic(s, msg, next) == IF msg # NoPanic THEN Panicked(s, msg) ELSE next

\* The reads  self.x[i]  of the registers in idx, as Index<u8> answers them.
Logged(s, idx) == [s EXCEPT !.reads = @ \cup {<<i, RegRead(s.x, i)>> : i \in idx}]

SetReg(s, index, v) == [s EXCEPT !.x = RegWrite(@, index, v)]

\* A pc that moves past the opcode byte only.
AdvancePastOpcode(s, n) == [s EXCEPT !.pc = Plus(@, 1)]

\* self.pc += n, past an instruction that was read at pc: no overflow.
Advance(s, n) == [s EXCEPT !.pc = Plus(@, n)]

\* The operands in the two bytes read after the opcode.
ArithmeticOperands(b1, b2) ==
    LET funct_rd == ToInt(b1.val)
        rs1_rs2  == ToInt(b2.val)
    IN  [panic |-> IF b1.panic # NoPanic THEN b1.panic
                   ELSE IF b2.panic # NoPanic THEN b2.panic
                   ELSE IF AFunctFromInteger(funct_rd \div 16) = "None" THEN PanicUnwrapNone
                   ELSE NoPanic,
         funct |-> AFunctFromInteger(funct_rd \div 16),
         rd    |-> funct_rd % 16,
         rs1   |-> rs1_rs2 \div 16,
         rs2   |-> rs1_rs2 % 16]

\* Vm::decode_arithmetic_inst
DecodeArithmetic(s) ==
    ArithmeticOperands(Read(s.stack, Plus(s.pc, 1), Byte), Read(s.stack, Plus(s.pc, 2), Byte))

\* The operands in the byte and the half word read after the opcode.
RegImm16RegOperands(b1, h) ==
    [panic |-> IF b1.panic # NoPanic THEN b1.panic ELSE h.panic,
     reg1  |-> ToInt(b1.val) \div 16,
     reg2  |-> ToInt(b1.val) % 16,
     imm16 |-> ToInt(h.val)]

\* Vm::dissassemble_reg_imm16_reg
DecodeRegImm16Reg(s) ==
    RegImm16RegOperands(Read(s.stack, Plus(s.pc, 1), Byte), Read(s.stack, Plus(s.pc, 2), Half))

\* `offset as i64` for offset: u16.
U16AsI64(offset) == offset

\* u64::wrapping_add_signed(a, i) for a small i64 i.
WrappingAddSigned(a, i) ==
    IF i >= 0 THEN WrappingAdd(a, FromInt(i)) ELSE WrappingSub(a, FromInt(-i))

\* An arithmetic whose Div and Rem give 0 on a zero divisor.
IntArithTotal(op, a, b) ==
    CASE op = "Add" -> [panic |-> NoPanic, val |-> WrappingAdd(a, b)]
      [] op = "Sub" -> [panic |-> NoPanic, val |-> WrappingSub(a, b)]
      [] op = "Mul" -> [panic |-> NoPanic, val |-> WrappingMul(a, b)]
      [] op = "Div" -> [panic |-> NoPanic, val |-> IF b = Zero THEN Zero ELSE WrappingDiv(a, b)]
      [] op = "Rem" -> [panic |-> NoPanic, val |-> IF b = Zero THEN Zero ELSE WrappingRem(a, b)]

\* self.x[rs1].$wrap_fn(self.x[rs2]); wrapping_div and wrapping_rem panic on
\* a zero divisor.
IntArith(op, a, b) ==
    CASE op = "Add" -> [panic |-> NoPanic, val |-> WrappingAdd(a, b)]
      [] op = "Sub" -> [panic |-> NoPanic, val |-> WrappingSub(a, b)]
      [] op = "Mul" -> [panic |-> NoPanic, val |-> WrappingMul(a, b)]
      [] op = "Div" -> IF b = Zero THEN [panic |-> PanicDivZero, val |-> Zero]
                       ELSE [panic |-> NoPanic, val |-> WrappingDiv(a, b)]
      [] op = "Rem" -> IF b = Zero THEN [panic |-> PanicRemZero, val |-> Zero]
                       ELSE [panic |-> NoPanic, val |-> WrappingRem(a, b)]

\* self.x[rd] = r, unless computing r panicked.
AssignResult(s, rd, r) == OrPanic(s, r.panic, SetReg(s, rd, r.val))

\* The execute part of inst_impl!(arithmetic; ...), pc already advanced.  fl
\* is the bit pattern the float operation of the platform gives (not computed
\* here); it is cut to the float's width.
ArithmeticExecute(s, op, d, fl) ==
    IF d.funct = "X"
    THEN AssignResult(s, d.rd, IntArith(op, RegRead(s.x, d.rs1), RegRead(s.x, d.rs2)))
    ELSE SetReg(s, d.rd, TruncBits(fl, FloatSize(d.funct)))

\* inst_impl!(arithmetic; ...), the operands being d.
ArithmeticDecoded(s, op, d, fl) ==
    OrPanic(s, d.panic, ArithmeticExecute(Logged(Advance(s, 3), {d.rs1, d.rs2}), op, d, fl))

ExecArithmetic(s, op, fl) == ArithmeticDecoded(s, op, DecodeArithmetic(s), fl)

\* a < b on i64: the operands taken as two's complement.
SignedLt(a, b) ==
    IF (a[Limbs] >= LimbBase \div 2) # (b[Limbs] >= LimbBase \div 2)
    THEN a[Limbs] >= LimbBase \div 2
    ELSE Lt(a, b)

\* The comparisons with < and >= on i64.
IntCompareSigned(op, a, b) ==
    IF CASE op = "Clt" -> SignedLt(a, b)
         [] op = "Cge" -> ~SignedLt(a, b)
         [] op = "Ceq" -> a = b
         [] op = "Cne" -> a # b
    THEN FromInt(1) ELSE Zero

\* (a $op b) as DWord on u64
IntCompare(op, a, b) ==
    IF CASE op = "Clt" -> Lt(a, b)
         [] op = "Cge" -> Ge(a, b)
         [] op = "Ceq" -> a = b
         [] op = "Cne" -> a # b
    THEN FromInt(1) ELSE Zero

\* The execute part of inst_impl!(comparison; ...), pc already advanced.  Bit
\* 0 of fl is the outcome of a float comparison (not computed here).
ComparisonExecute(s, op, d, fl) ==
    IF d.funct = "X"
    THEN SetReg(s, d.rd, IntCompare(op, RegRead(s.x, d.rs1), RegRead(s.x, d.rs2)))
    ELSE SetReg(s, d.rd, FromInt(BitAt(fl, 0)))

\* inst_impl!(comparison; ...), the operands being d.
ComparisonDecoded(s, op, d, fl) ==
    OrPanic(s, d.panic, ComparisonExecute(Logged(Advance(s, 3), {d.rs1, d.rs2}), op, d, fl))

ExecComparison(s, op, fl) == ComparisonDecoded(s, op, DecodeArithmetic(s), fl)

\* (a $op b) on u64, for &, | and ^
IntBitwise(op, a, b) ==
    CASE op = "And" -> BitwiseOp(AndBit, a, b)
      [] op = "Or"  -> BitwiseOp(OrBit, a, b)
      [] op = "Xor" -> BitwiseOp(XorBit, a, b)

\* The execute part of inst_impl!(bitwise; ...), pc already advanced.
BitwiseExecute(s, op, d) ==
    IF d.funct = "X"
    THEN SetReg(Logged(s, {d.rs1, d.rs2}), d.rd,
                IntBitwise(op, RegRead(s.x, d.rs1), RegRead(s.x, d.rs2)))
    ELSE Panicked(s, PanicBitwiseFloat)

\* inst_impl!(bitwise; ...), the operands being d.
BitwiseDecoded(s, op, d) == OrPanic(s, d.panic, BitwiseExecute(Advance(s, 3), op, d))

ExecBitwise(s, op) == BitwiseDecoded(s, op, DecodeArithmetic(s))

\* The address a load or a store uses: self.x[r].wrapping_add_signed(offset as i64)
EffectiveAddress(base, imm16) == WrappingAddSigned(base, U16AsI64(imm16))

\* inst_impl!(load; ...), the operands being d: (rd, rs, offset) = (reg1, reg2, imm16)
LoadDecoded(s, size, d) ==
    OrPanic(s, d.panic,
            AssignResult(Logged(Advance(s, 4), {d.reg2}), d.reg1,
                         Read(s.stack, EffectiveAddress(RegRead(s.x, d.reg2), d.imm16), size)))

ExecLoad(s, size) == LoadDecoded(s, size, DecodeRegImm16Reg(s))

\* self.stack becomes what the write w left, unless w panicked.
AssignStack(s, w) == OrPanic(s, w.panic, [s EXCEPT !.stack = w.stack])

\* inst_impl!(store; ...), the operands being d: (rs1, rs2, offset) = (reg1, reg2, imm16)
StoreDecoded(s, size, d) ==
    OrPanic(s, d.panic,
            AssignStack(Logged(Advance(s, 4), {d.reg1, d.reg2}),
                        Write(s.stack, EffectiveAddress(RegRead(s.x, d.reg1), d.imm16), size,
                              RegRead(s.x, d.reg2))))

ExecStore(s, size) == StoreDecoded(s, size, DecodeRegImm16Reg(s))

\* self.x[Reg::sp] = r, unless computing r overflowed under overflow checks.
\* (AssignResult, for the compound assignments to sp.)
\* self.x[Reg::sp] -= Vm::XLEN / 8
DecrementSp(s) == AssignResult(s, SP, CheckedSub(RegSlot(s.x, SP), FromInt(XLEN \div 8)))

\* self.x[Reg::sp] += Vm::XLEN / 8
IncrementSp(s) == AssignResult(s, SP, CheckedAdd(RegSlot(s.x, SP), FromInt(XLEN \div 8)))

\* The return address Call saves: `self.pc + 5`, computed after `self.pc += 5`.
SavedReturnAddress(pc_advanced) == Plus(pc_advanced, 5)

\* self.write(self.x[Reg::sp], Size::Double, value), sp already decremented
\* (or the panic of the decrement).
WriteAtSp(s, value) ==
    OrPanic(s, s.panic,
            AssignStack(Logged(s, {SP}), Write(s.stack, RegRead(s.x, SP), Double, value)))

\* self.pc = target, unless the step has panicked.
JumpTo(s, target) == OrPanic(s, s.panic, [s EXCEPT !.pc = target])

\* Some(Opcode::Call), imm32 being the word read at pc + 1.
CallDecoded(s, imm32) ==
    OrPanic(s, imm32.panic,
            JumpTo(WriteAtSp(DecrementSp(Advance(s, 5)), SavedReturnAddress(Plus(s.pc, 5))),
                   imm32.val))

ExecCall(s) == CallDecoded(s, Read(s.stack, Plus(s.pc, 1), Word))

\* A Ret that forgets  self.x[Reg::sp] += 8.
RetReadKeepingSp(s, r) == OrPanic(s, r.panic, [s EXCEPT !.pc = r.val])

\* self.pc = r; self.x[Reg::sp] += 8, r being the double word read at [sp].
RetRead(s, r) == OrPanic(s, r.panic, IncrementSp([s EXCEPT !.pc = r.val]))

\* Some(Opcode::Ret)
ExecRet(s) ==
    RetRead(Logged(Advance(s, 1), {SP}), Read(s.stack, RegRead(s.x, SP), Double))

\* self.pc += self.x[rs1], t being the checked sum.
JzeAdd(s, t) == OrPanic(s, t.panic, [s EXCEPT !.pc = t.val])

\* The taken Jze, pc already advanced:
\*   self.pc = self.pc.wrapping_add_signed(offset as i64); self.pc += self.x[rs1];
JzeTaken(s, d) ==
    JzeAdd(Logged([s EXCEPT !.pc = WrappingAddSigned(@, U16AsI64(d.imm16))], {d.reg1}),
           CheckedAdd(WrappingAddSigned(s.pc, U16AsI64(d.imm16)), RegRead(s.x, d.reg1)))

\* Some(Opcode::Jze), pc already advanced: (rs1, rs2, offset) = (reg1, reg2, imm16)
JzeExecute(s, d) == IF RegRead(s.x, d.reg2) = Zero THEN JzeTaken(s, d) ELSE s

JzeDecoded(s, d) == OrPanic(s, d.panic, JzeExecute(Logged(Advance(s, 4), {d.reg2}), d))

ExecJze(s) == JzeDecoded(s, DecodeRegImm16Reg(s))

\* A branch that always falls through.
BranchNeverTaken(op, a, b) == FALSE

\* The branch conditions with < and >= on i64.
BranchTakenSigned(op, a, b) ==
    CASE op = "Beq" -> a = b
      [] op = "Bne" -> a # b
      [] op = "Blt" -> SignedLt(a, b)
      [] op = "Bge" -> ~SignedLt(a, b)

\* The condition of Beq, Bne, Blt, Bge on u64.
BranchTaken(op, a, b) ==
    CASE op = "Beq" -> a = b
      [] op = "Bne" -> a # b
      [] op = "Blt" -> Lt(a, b)
      [] op = "Bge" -> Ge(a, b)

\* `offset as u64` for offset: u16.
U16AsU64(offset) == FromInt(offset)

\* Some(Opcode::Beq | Bne | Blt | Bge), pc already advanced:
\*   if self.x[rs1] $op self.x[rs2] { self.pc += offset as u64; }
BranchExecute(s, op, d) ==
    IF BranchTaken(op, RegRead(s.x, d.reg1), RegRead(s.x, d.reg2))
    THEN JzeAdd(s, CheckedAdd(s.pc, U16AsU64(d.imm16)))
    ELSE s

\* (rs1, rs2, offset) = (reg1, reg2, imm16)
BranchDecoded(s, op, d) ==
    OrPanic(s, d.panic, BranchExecute(Logged(Advance(s, 4), {d.reg1, d.reg2}), op, d))

ExecBranch(s, op) == BranchDecoded(s, op, DecodeRegImm16Reg(s))

\* Some(Opcode::LiB | LiH | LiW | LiD), b1 and imm being the byte at pc + 1
\* and the immediate at pc + 2: the instruction is `size + 2` bytes long.
LoadImmediateDecoded(s, size, b1, imm) ==
    OrPanic(s, b1.panic,
            OrPanic(s, imm.panic, SetReg(Advance(s, size + 2), ToInt(b1.val) % 16, imm.val)))

ExecLoadImmediate(s, size) ==
    LoadImmediateDecoded(s, size, Read(s.stack, Plus(s.pc, 1), Byte),
                         Read(s.stack, Plus(s.pc, 2), size))

\* self.x[rd] = self.x[rs], pc already advanced.
MovExecute(s, rd, rs) == SetReg(Logged(s, {rs}), rd, RegRead(s.x, rs))

\* Some(Opcode::Mov), b1 being the byte at pc + 1: rd | rs
MovDecoded(s, b1) ==
    OrPanic(s, b1.panic, MovExecute(Advance(s, 2), ToInt(b1.val) \div 16, ToInt(b1.val) % 16))

ExecMov(s) == MovDecoded(s, Read(s.stack, Plus(s.pc, 1), Byte))

\* self.write(self.x[Reg::sp], Size::Double, self.x[rs]), sp already decremented
\* (or the panic of the decrement).
PushWrite(s, rs) == WriteAtSp(OrPanic(s, s.panic, Logged(s, {rs})), RegRead(s.x, rs))

\* Some(Opcode::Push), b1 being the byte at pc + 1
PushDecoded(s, b1) ==
    OrPanic(s, b1.panic, PushWrite(DecrementSp(Advance(s, 2)), ToInt(b1.val) % 16))

ExecPush(s) == PushDecoded(s, Read(s.stack, Plus(s.pc, 1), Byte))

\* A Pop that forgets  self.x[Reg::sp] += 8.
PopReadKeepingSp(s, rd, r) == OrPanic(s, r.panic, SetReg(s, rd, r.val))

\* self.x[rd] = r; self.x[Reg::sp] += 8, r being the double word read at [sp].
PopRead(s, rd, r) == OrPanic(s, r.panic, IncrementSp(SetReg(s, rd, r.val)))

\* Some(Opcode::Pop), b1 being the byte at pc + 1
PopDecoded(s, b1) ==
    OrPanic(s, b1.panic,
            PopRead(Logged(Advance(s, 2), {SP}), ToInt(b1.val) % 16,
                    Read(s.stack, RegRead(s.x, SP), Double)))

ExecPop(s) == PopDecoded(s, Read(s.stack, Plus(s.pc, 1), Byte))

\* The opcode a fetch f gives: "None" for a byte that names none, "Fault"
\* when the read panics.
FetchedOpcode(f) == IF f.panic # NoPanic THEN "Fault" ELSE OpcodeFromInteger(ToInt(f.val))

\* Opcode::from_integer(self.read(self.pc, Size::Byte) as u8)
FetchOpcode(s) == FetchedOpcode(Read(s.stack, s.pc, Byte))

\* The match of Vm::step on opcode op.
Dispatch(s, fl, op) ==
    CASE op = "Fault" -> Panicked(s, Read(s.stack, s.pc, Byte).panic)
      [] op = "None"  -> Panicked(s, PanicInvalidInstruction)
      [] op \in {"Add", "Sub", "Mul", "Div", "Rem"} -> ExecArithmetic(s, op, fl)
      [] op \in {"Clt", "Cge", "Ceq", "Cne"} -> ExecComparison(s, op, fl)
      [] op \in {"And", "Or", "Xor"} -> ExecBitwise(s, op)
      [] op = "Call" -> ExecCall(s)
      [] op = "Ret"  -> ExecRet(s)
      [] op = "Jze"  -> ExecJze(s)
      [] op \in {"Beq", "Bne", "Blt", "Bge"} -> ExecBranch(s, op)
      [] op = "LdB" -> ExecLoad(s, Byte)
      [] op = "LdH" -> ExecLoad(s, Half)
      [] op = "LdW" -> ExecLoad(s, Word)
      [] op = "LdD" -> ExecLoad(s, Double)
      [] op = "StB" -> ExecStore(s, Byte)
      [] op = "StH" -> ExecStore(s, Half)
      [] op = "StW" -> ExecStore(s, Word)
      [] op = "StD" -> ExecStore(s, Double)
      [] op = "LiB" -> ExecLoadImmediate(s, Byte)
      [] op = "LiH" -> ExecLoadImmediate(s, Half)
      [] op = "LiW" -> ExecLoadImmediate(s, Word)
      [] op = "LiD" -> ExecLoadImmediate(s, Double)
      [] op = "Mov"  -> ExecMov(s)
      [] op = "Push" -> ExecPush(s)
      [] op = "Pop"  -> ExecPop(s)

\* Vm::step
Exec(s, fl) == Dispatch(s, fl, FetchOpcode(s))

(***************************************************************************)
(* Programs: the encodings the decoders above read back.                   *)
(***************************************************************************)
OpByte(op) == CHOOSE b \in 0..(Len(Opcodes) - 1) : Opcodes[b + 1] = op

FunctNibble(funct) == CHOOSE n \in 0..(Len(AFuncts) - 1) : AFuncts[n + 1] = funct

\* opcode | funct rd | rs1 rs2
EncA(op, funct, rd, rs1, rs2) == <<OpByte(op), FunctNibble(funct) * 16 + rd, rs1 * 16 + rs2>>

\* opcode | reg1 reg2 | imm16 (LE)
EncRIR(op, reg1, reg2, imm16) == <<OpByte(op), reg1 * 16 + reg2, imm16 % 256, imm16 \div 256>>

\* opcode | 0 rd | the low `size` bytes of v (LE)
EncLi(op, rd, v, size) == <<OpByte(op), rd>> \o TruncToLeBytes(v, size)

LiB(rd, n) == EncLi("LiB", rd, FromInt(n), Byte)

LiH(rd, n) == EncLi("LiH", rd, FromInt(n), Half)

LiW(rd, v) == EncLi("LiW", rd, v, Word)

LiD(rd, v) == EncLi("LiD", rd, v, Double)

\* opcode | rd rs
Mov(rd, rs) == <<OpByte("Mov"), rd * 16 + rs>>

\* opcode | 0 r
Push(rs) == <<OpByte("Push"), rs>>

Pop(rd) == <<OpByte("Pop"), rd>>

\* opcode | imm32 (LE)
Call(target) == <<OpByte("Call")>> \o TruncToLeBytes(target, Word)

Ret == <<OpByte("Ret")>>

(***************************************************************************)
(* Inputs: programs, stack sizes, float outcomes.                          *)
(***************************************************************************)
AllOnes == <<LimbBase - 1, LimbBase - 1, LimbBase - 1, LimbBase - 1>>

\* 0xDEADBEEFCAFEBABE
DeadBeef == <<47806, 51966, 48879, 57005>>

\* 0x0807060504030201: every byte differs
Bytes1to8 == <<513, 1027, 1541, 2055>>

\* The stack sizes tried: 0, 4, 8, ... bytes.
MaxStackUnits == 4

StackSizes == {4 * k : k \in 0..MaxStackUnits}

\* How many calls hist remembers.
HistLen == 3

\* The bit patterns a float operation may give.
FloatOutcomes == {Zero, AllOnes}

\* LiD r,v; Push r; Pop r'
Lifo(r, v, rp) == LiD(r, v) \o Push(r) \o Pop(rp)

LifoPrograms ==
    {Lifo(r, v, rp) : r \in {0, 1, SP}, v \in {DeadBeef, FromInt(287)}, rp \in {0, 1, 2, SP}}
    \cup {Push(3) \o Lifo(1, DeadBeef, 2), Push(3) \o Lifo(2, Bytes1to8, 2)}

ScenarioPrograms ==
    { \* S1
      LiB(1, 3) \o LiB(2, 4) \o EncA("Add", "X", 3, 1, 2),
      \* S2
      LiD(1, DeadBeef) \o Push(1) \o LiB(1, 0) \o Pop(2),
      \* S3
      LiB(1, 5) \o LiB(2, 5) \o EncRIR("Beq", 1, 2, 2) \o LiB(3, 1) \o LiB(3, 2),
      \* S4: f32 1.5 + 2.25
      LiW(1, <<0, 16320, 0, 0>>) \o LiW(2, <<0, 16400, 0, 0>>) \o EncA("Add", "F32", 3, 1, 2),
      \* S5: Call f; LiB r2,1; f: LiB r1,42; Ret
      Call(FromInt(PROGRAM_START + 8)) \o LiB(2, 1) \o LiB(1, 42) \o Ret,
      \* S6
      EncRIR("LdB", 1, 0, 0) }

ZeroRegisterPrograms ==
    { LiB(0, 5) \o Mov(1, 0) \o EncA("Add", "X", 2, 0, 0) \o EncRIR("Bne", 0, 2, 0)
        \o Push(0) \o Pop(0) \o Mov(3, 0),
      LiD(0, AllOnes) \o EncA("Cne", "X", 1, 0, 1) \o EncA("Or", "X", 0, 0, 1)
        \o EncRIR("Jze", 0, 0, 0) \o Mov(0, SP) \o EncRIR("StD", 0, 0, 0),
      LiH(0, 300) \o EncRIR("LdB", 1, 0, 256) \o LiW(0, DeadBeef) \o EncA("Mul", "X", 0, 1, 1)
        \o EncA("Add", "F32", 0, 0, 0) \o Mov(2, 0) }

MemoryPrograms ==
    { LiD(2, DeadBeef) \o Push(2) \o EncRIR("LdW", 3, SP, 4) \o EncRIR("StH", SP, 2, 2)
        \o EncRIR("LdD", 4, SP, 0) \o EncRIR("StB", SP, 3, 7) \o EncRIR("LdH", 5, SP, 6)
        \o EncRIR("StW", SP, 0, 0) \o EncRIR("LdB", 6, SP, 5) \o EncRIR("StD", SP, 4, 0),
      \* a negative offset from a base above the slot
      LiD(2, DeadBeef) \o Mov(5, SP) \o Push(2) \o EncRIR("LdD", 3, 5, 65528),
      Mov(5, SP) \o Push(0) \o LiB(2, 7) \o EncRIR("StB", 5, 2, 65528),
      \* a base that wraps around 2^64 into the stack (stack_top = 283, 285)
      LiD(1, WrappingSub(FromInt(283), FromInt(65528))) \o LiD(2, Bytes1to8) \o Push(2)
        \o EncRIR("LdD", 3, 1, 65528),
      LiD(1, WrappingSub(FromInt(285), FromInt(65535))) \o LiD(2, Bytes1to8) \o Push(0)
        \o EncRIR("StW", 1, 2, 65535) \o Pop(4) }

TrapPrograms ==
    { <<>>,
      <<255>>,
      <<OpByte("LiB"), 1>>,
      <<OpByte("Add"), 4 * 16 + 1, 0>>,
      EncA("And", "F32", 1, 2, 3),
      LiB(1, 7) \o EncA("Div", "X", 2, 1, 0),
      LiB(1, 7) \o LiB(2, 0) \o EncA("Rem", "X", 3, 1, 2),
      LiB(1, 7) \o EncA("Div", "F64", 2, 1, 0),
      LiH(1, PROGRAM_START) \o EncRIR("StB", 1, 2, 0),
      LiH(1, PROGRAM_START) \o EncRIR("StB", 1, 2, 8),
      EncRIR("StB", 0, 0, 0),
      EncRIR("StD", SP, 0, 1),
      Ret,
      Pop(1),
      Push(1) \o Push(2) \o Push(3),
      Call(FromInt(PROGRAM_START)) }

ControlPrograms ==
    { EncRIR("Jze", 0, 0, 32767),
      EncRIR("Jze", 0, 0, 65532),
      LiB(1, 1) \o EncRIR("Jze", 0, 1, 4) \o LiB(2, 4) \o EncRIR("Jze", 2, 0, 0) \o LiB(3, 1),
      LiD(1, AllOnes) \o EncRIR("Jze", 1, 0, 0),
      EncRIR("Beq", 0, 0, 65535),
      Call(Zero),
      \* a call into the stack (stack_top = 262)
      Call(FromInt(PROGRAM_START + 6)),
      LiB(1, 1) \o EncRIR("Bne", 1, 0, 3) \o LiB(2, 9) \o EncRIR("Blt", 0, 1, 3) \o LiB(3, 9)
        \o EncRIR("Bge", 0, 1, 3) \o LiB(4, 9) \o EncRIR("Beq", 0, 1, 3) \o LiB(5, 9)
        \o EncRIR("Bge", 1, 0, 0) \o EncRIR("Blt", 1, 0, 0) \o EncRIR("Bne", 1, 1, 9),
      LiD(1, AllOnes) \o EncRIR("Blt", 1, 0, 3) \o LiB(2, 9) \o EncRIR("Bge", 1, 0, 3)
        \o LiB(3, 9) \o EncA("Clt", "X", 4, 1, 0) \o EncA("Cge", "X", 5, 1, 0) }

StackPointerPrograms ==
    { LiB(SP, 0) \o Push(1),
      LiB(SP, 0) \o Pop(1),
      LiD(1, AllOnes) \o Push(1) \o Pop(SP),
      LiB(1, 1) \o EncA("Add", "X", SP, SP, 1) \o Push(1),
      Push(1) \o LiH(2, 1000) \o EncA("Sub", "X", SP, SP, 2),
      Push(1) \o EncRIR("LdD", SP, SP, 0),
      Mov(SP, 0) \o Ret }

ArithmeticPrograms ==
    { LiD(1, DeadBeef) \o LiB(2, 10)
        \o EncA("Sub", "X", 3, 2, 1) \o EncA("Mul", "X", 4, 1, 1) \o EncA("Div", "X", 5, 1, 2)
        \o EncA("Rem", "X", 6, 1, 2) \o EncA("And", "X", 7, 1, 3) \o EncA("Or", "X", 8, 1, 2)
        \o EncA("Xor", "X", 9, 1, 4) \o EncA("Cge", "X", 10, 1, 2) \o EncA("Ceq", "X", 11, 1, 1)
        \o EncA("Cne", "X", 12, 1, 1) \o EncA("Clt", "X", 13, 2, 1) \o EncA("Add", "X", 14, 1, 1),
      LiB(1, 1) \o EncA("Clt", "F64", 2, 1, 0) \o EncA("Ceq", "F16", 3, 1, 1)
        \o EncA("Mul", "F16", 4, 1, 1) \o EncA("Sub", "F64", 5, 1, 1) }

\* S3 as written, and S3 with the displacement that skips the whole of
\* LiB r3,1 (3 bytes).
ScenarioS3 == LiB(1, 5) \o LiB(2, 5) \o EncRIR("Beq", 1, 2, 2) \o LiB(3, 1) \o LiB(3, 2)

ScenarioS3Skipping == LiB(1, 5) \o LiB(2, 5) \o EncRIR("Beq", 1, 2, 3) \o LiB(3, 1) \o LiB(3, 2)

BranchScenarioPrograms == {ScenarioS3, ScenarioS3Skipping}

Programs ==
    ScenarioPrograms \cup LifoPrograms \cup ZeroRegisterPrograms \cup MemoryPrograms
    \cup TrapPrograms \cup ControlPrograms \cup StackPointerPrograms \cup ArithmeticPrograms
    \cup BranchScenarioPrograms

(***************************************************************************)
(* Vm::new(stack_size, program), and the build profile of the binary.      *)
(***************************************************************************)
New(stack_size, prog) ==
    /\ program = prog
    /\ program_end = FromInt(PROGRAM_START + Len(prog))
    /\ stack_bottom = FromInt(PROGRAM_START + Len(prog) + 1 + stack_size)
    /\ canary_end = FromInt(PROGRAM_START + Len(prog) + 1 + stack_size + 1 + CANARY_SIZE)
    /\ x = [i \in 0..(NREGS - 1) |->
              IF i = SP THEN FromInt(PROGRAM_START + Len(prog) + 1 + stack_size) ELSE Zero]
    /\ pc = FromInt(PROGRAM_START)
    /\ stack = [i \in 1..stack_size |-> 0]
    /\ done = FALSE

\* No AST: the front end is not involved.
NoAst == [kind |-> "NoAst"]

NoRead == [made |-> FALSE, addr |-> Zero, size |-> 0, ret |-> Zero]

Init ==
    /\ \E prog \in Programs, stack_size \in StackSizes : New(stack_size, prog)
    /\ overflow_checks \in BOOLEAN
    /\ panic = NoPanic
    /\ hist = <<>>
    /\ last_read = NoRead
    /\ reg_reads = {}
    /\ ast = NoAst
    /\ ckast = NoAst

\* What Vm::debug_regs prints: impl Debug for Registers names the stored slots
\* self.0[0] .. self.0[15].
debug_regs ==
    [zr |-> x[0], a0 |-> x[1], a1 |-> x[2], a2 |-> x[3], a3 |-> x[4], a4 |-> x[5],
     t0 |-> x[6], t1 |-> x[7], t2 |-> x[8], t3 |-> x[9], s0 |-> x[10], s1 |-> x[11],
     s2 |-> x[12], s3 |-> x[13], fp |-> x[14], sp |-> x[15]]

(***************************************************************************)
(* Calls.  A panic unwinds the calling thread: no call follows it.         *)
(***************************************************************************)
\* The fields of the Vm a step works on.
Current == [x |-> x, pc |-> pc, stack |-> stack, panic |-> NoPanic, reads |-> {}]

\* What hist keeps of a call: the call, the opcode fetched (steps), the
\* arguments (write) and the state the call was made in.
Entry(call, op, addr, size, value) ==
    [call |-> call, op |-> op, pc |-> pc, x |-> x, stack |-> stack,
     addr |-> addr, size |-> size, value |-> value]

Remember(e) == hist' = SubSeq(<<e>> \o hist, 1, IF Len(hist) < HistLen THEN Len(hist) + 1 ELSE HistLen)

\* A call that, besides leaving the Vm as s, sets done.
BecomesDone(s) ==
    /\ x' = s.x
    /\ pc' = s.pc
    /\ stack' = s.stack
    /\ panic' = s.panic
    /\ reg_reads' = s.reads
    /\ last_read' = NoRead
    /\ done' = TRUE
    /\ UNCHANGED <<program_end, stack_bottom, canary_end, program, overflow_checks,
                   ast, ckast>>

\* The Vm after a call that leaves it as s.
Becomes(s) ==
    /\ x' = s.x
    /\ pc' = s.pc
    /\ stack' = s.stack
    /\ panic' = s.panic
    /\ reg_reads' = s.reads
    /\ last_read' = NoRead
    /\ UNCHANGED <<program_end, stack_bottom, canary_end, program, done, overflow_checks,
                   ast, ckast>>

\* A call of Vm::step made by `call` ("step": the embedder, "run": Vm::run)
\* that leaves the Vm as s.
Stepped(call, s) ==
    /\ Becomes(s)
    /\ Remember(Entry(call, FetchOpcode(Current), Zero, 0, Zero))

Alive == panic = NoPanic

\* Vm::step where the read of the opcode panics.
StepFetchFault ==
    /\ Alive
    /\ FetchOpcode(Current) = "Fault"
    /\ Stepped("step", Panicked(Current, Read(stack, pc, Byte).panic))

\* Vm::step on a byte that names no opcode.
StepInvalid ==
    /\ Alive
    /\ FetchOpcode(Current) = "None"
    /\ Stepped("step", Panicked(Current, PanicInvalidInstruction))

\* Vm::step on Add, Sub, Mul, Div, Rem.
StepArithmetic ==
    /\ Alive
    /\ FetchOpcode(Current) \in {"Add", "Sub", "Mul", "Div", "Rem"}
    /\ \E fl \in FloatOutcomes :
          Stepped("step", ExecArithmetic(Current, FetchOpcode(Current), fl))

\* Vm::step on Clt, Cge, Ceq, Cne.
StepComparison ==
    /\ Alive
    /\ FetchOpcode(Current) \in {"Clt", "Cge", "Ceq", "Cne"}
    /\ \E fl \in FloatOutcomes :
          Stepped("step", ExecComparison(Current, FetchOpcode(Current), fl))

\* Vm::step on And, Or, Xor.
StepBitwise ==
    /\ Alive
    /\ FetchOpcode(Current) \in {"And", "Or", "Xor"}
    /\ Stepped("step", ExecBitwise(Current, FetchOpcode(Current)))

StepCall == Alive /\ FetchOpcode(Current) = "Call" /\ Stepped("step", ExecCall(Current))

StepRet == Alive /\ FetchOpcode(Current) = "Ret" /\ Stepped("step", ExecRet(Current))

StepJze == Alive /\ FetchOpcode(Current) = "Jze" /\ Stepped("step", ExecJze(Current))

\* Vm::step on Beq, Bne, Blt, Bge.
StepBranch ==
    /\ Alive
    /\ FetchOpcode(Current) \in {"Beq", "Bne", "Blt", "Bge"}
    /\ Stepped("step", ExecBranch(Current, FetchOpcode(Current)))

\* The access size of LdS / StS / LiS.
SizeOf(op) ==
    CASE op \in {"LdB", "StB", "LiB"} -> Byte
      [] op \in {"LdH", "StH", "LiH"} -> Half
      [] op \in {"LdW", "StW", "LiW"} -> Word
      [] op \in {"LdD", "StD", "LiD"} -> Double

\* Vm::step on LdB, LdH, LdW, LdD.
StepLoad ==
    /\ Alive
    /\ FetchOpcode(Current) \in {"LdB", "LdH", "LdW", "LdD"}
    /\ Stepped("step", ExecLoad(Current, SizeOf(FetchOpcode(Current))))

\* Vm::step on StB, StH, StW, StD.
StepStore ==
    /\ Alive
    /\ FetchOpcode(Current) \in {"StB", "StH", "StW", "StD"}
    /\ Stepped("step", ExecStore(Current, SizeOf(FetchOpcode(Current))))

\* Vm::step on LiB, LiH, LiW, LiD.
StepLoadImmediate ==
    /\ Alive
    /\ FetchOpcode(Current) \in {"LiB", "LiH", "LiW", "LiD"}
    /\ Stepped("step", ExecLoadImmediate(Current, SizeOf(FetchOpcode(Current))))

StepMov == Alive /\ FetchOpcode(Current) = "Mov" /\ Stepped("step", ExecMov(Current))

StepPush == Alive /\ FetchOpcode(Current) = "Push" /\ Stepped("step", ExecPush(Current))

StepPop == Alive /\ FetchOpcode(Current) = "Pop" /\ Stepped("step", ExecPop(Current))

\* Vm::run:  while !self.done { self.step(); break; }
Run ==
    /\ Alive
    /\ IF done
       THEN /\ Remember(Entry("run", "", Zero, 0, Zero))
            /\ last_read' = NoRead
            /\ reg_reads' = {}
            /\ UNCHANGED <<x, pc, program_end, stack_bottom, canary_end, program, stack,
                           done, panic, overflow_checks, ast, ckast>>
       ELSE \E fl \in FloatOutcomes : Stepped("run", Exec(Current, fl))

Next ==
    \/ StepFetchFault
    \/ StepInvalid
    \/ StepArithmetic
    \/ StepComparison
    \/ StepBitwise
    \/ StepCall
    \/ StepRet
    \/ StepJze
    \/ StepBranch
    \/ StepLoad
    \/ StepStore
    \/ StepLoadImmediate
    \/ StepMov
    \/ StepPush
    \/ StepPop
    \/ Run

Spec == Init /\ [][Next]_vars

(***************************************************************************)
(* The embedder's calls of Vm::read and Vm::write (both are pub fn).       *)
(***************************************************************************)
\* How many calls of write a behaviour of the memory interface makes.
MaxApiWrites == 1

\* The addresses tried: both ends of every region, the addresses next to
\* them and the starts of the accesses that end at stack_bottom.
ApiAddresses ==
    {Zero, FromInt(SPECIAL_END), FromInt(PROGRAM_START), WrappingSub(program_end, FromInt(1)),
     program_end, stack_top, Plus(stack_top, 1),
     WrappingSub(stack_bottom, FromInt(8)), WrappingSub(stack_bottom, FromInt(4)),
     WrappingSub(stack_bottom, FromInt(2)), WrappingSub(stack_bottom, FromInt(1)),
     stack_bottom, canary_start, heap_base, AllOnes}

ApiValues == {Bytes1to8, DeadBeef}

\* The programs the memory interface is tried with.
ApiPrograms == {LiB(1, 3) \o LiB(2, 4) \o EncA("Add", "X", 3, 1, 2)}

\* read and write do no arithmetic that can overflow: one build profile.
InitMem ==
    /\ \E prog \in ApiPrograms, stack_size \in StackSizes : New(stack_size, prog)
    /\ overflow_checks = FALSE
    /\ panic = NoPanic
    /\ hist = <<>>
    /\ last_read = NoRead
    /\ reg_reads = {}
    /\ ast = NoAst
    /\ ckast = NoAst

\* vm.read(addr, size): &self, so only the caller learns something.
ApiRead ==
    /\ Alive
    /\ \E addr \in ApiAddresses, size \in Sizes :
          /\ panic' = Read(stack, addr, size).panic
          /\ last_read' = [made |-> TRUE, addr |-> addr, size |-> size,
                           ret |-> Read(stack, addr, size).val]
    /\ UNCHANGED <<x, pc, program_end, stack_bottom, canary_end, program, stack, done,
                   overflow_checks, hist, reg_reads, ast, ckast>>

\* vm.write(addr, size, value)
ApiWrite ==
    /\ Alive
    /\ Len(hist) < MaxApiWrites
    /\ \E addr \in ApiAddresses, size \in Sizes, value \in ApiValues :
          /\ stack' = Write(stack, addr, size, value).stack
          /\ panic' = Write(stack, addr, size, value).panic
          /\ Remember(Entry("write", "", addr, size, value))
    /\ last_read' = NoRead
    /\ UNCHANGED <<x, pc, program_end, stack_bottom, canary_end, program, done,
                   overflow_checks, reg_reads, ast, ckast>>

NextMem ==
    \/ ApiRead
    \/ ApiWrite

SpecMem == InitMem /\ [][NextMem]_vars

(***************************************************************************)
(* The front end: from_ast, raw AST to checked AST (lun_semack::ckast).    *)
(* A struct is a record of its fields, an enum value a record with a kind  *)
(* and the variant's fields, a Vec a sequence, a Box its content.          *)
(***************************************************************************)
\* Option<T>.
None == [some |-> FALSE]

Some(v) == [some |-> TRUE, val |-> v]

\* A source location.
Span(lo, hi) == [lo |-> lo, hi |-> hi]

\* The raw AST of the parser: Expression, Statement, Chunk, ElseIf, Arg.
Expression(expr, loc) == [expr |-> expr, loc |-> loc]

Statement(stmt, loc) == [stmt |-> stmt, loc |-> loc]

Chunk(stmts, loc) == [stmts |-> stmts, loc |-> loc]

ElseIf(cond, body, loc) == [cond |-> cond, body |-> body, loc |-> loc]

Arg(name, name_loc, typ, loc) == [name |-> name, name_loc |-> name_loc, typ |-> typ, loc |-> loc]

\* MaybeUnresolved::Unresolved(name).
Unresolved(name) == [tag |-> "Unresolved", name |-> name]

\* Type::Unknown.
TypeUnknown == "Unknown"

\* The names of the checked types from_ast is implemented for.
CkChunk == <<"CkChunk">>

CkStatement == <<"CkStatement">>

CkElseIf == <<"CkElseIf">>

CkArg == <<"CkArg">>

CkExpression == <<"CkExpression">>

OptionOf(T) == <<"Option">> \o T

VecOf(T) == <<"Vec">> \o T

BoxOf(T) == <<"Box">> \o T

\* from_ast::<T>(ast), defined below once every implementation is.
RECURSIVE FromAst(_, _)

\* impl FromAst for Option<T>: ast.map(from_ast).
FromAstOption(T, a) ==
    IF a.some THEN Some(FromAst(T, a.val)) ELSE None

\* A Vec conversion that pushes the items in the opposite order.
FromAstVecReversed(T, a) ==
    [i \in 1..Len(a) |-> FromAst(T, a[Len(a) + 1 - i])]

\* impl FromAst for Vec<T>: the items, converted and pushed in order.
FromAstVec(T, a) ==
    [i \in 1..Len(a) |-> FromAst(T, a[i])]

\* impl FromAst for Box<T>.
FromAstBox(T, a) ==
    FromAst(T, a)

\* impl FromAst for CkChunk.
FromAstCkChunk(chunk) ==
    [stmts |-> FromAst(VecOf(CkStatement), chunk.stmts), loc |-> chunk.loc]

\* The match of impl FromAst for CkStatement.
FromAstStmt(s) ==
    CASE s.kind = "Assignement" ->
            [kind |-> "Assignement",
             variable |-> Unresolved(s.variable),
             value |-> FromAst(CkExpression, s.value)]
      [] s.kind = "VariableDef" ->
            [kind |-> "VariableDef",
             vis |-> s.vis,
             name |-> s.name,
             name_loc |-> s.name_loc,
             typ |-> FromAst(OptionOf(CkExpression), s.typ),
             value |-> FromAst(OptionOf(CkExpression), s.value),
             sym |-> Unresolved(s.name)]
      [] s.kind = "IfThenElse" ->
            [kind |-> "IfThenElse",
             cond |-> FromAst(CkExpression, s.cond),
             body |-> FromAst(CkChunk, s.body),
             else_ifs |-> FromAst(VecOf(CkElseIf), s.else_ifs),
             else_body |-> FromAst(OptionOf(CkChunk), s.else_body)]
      [] s.kind = "DoBlock" ->
            [kind |-> "DoBlock",
             body |-> FromAst(CkChunk, s.body)]
      [] s.kind = "FunCall" ->
            [kind |-> "FunCall",
             name |-> Unresolved(s.name),
             args |-> FromAst(VecOf(CkExpression), s.args)]
      [] s.kind = "While" ->
            [kind |-> "While",
             cond |-> FromAst(CkExpression, s.cond),
             body |-> FromAst(CkChunk, s.body)]
      [] s.kind = "For" ->
            [kind |-> "For",
             variable |-> s.variable,
             iterator |-> FromAst(CkExpression, s.iterator),
             body |-> FromAst(CkChunk, s.body)]
      [] s.kind = "FunDef" ->
            [kind |-> "FunDef",
             vis |-> s.vis,
             name |-> s.name,
             name_loc |-> s.name_loc,
             args |-> FromAst(VecOf(CkArg), s.args),
             rettype |-> FromAst(OptionOf(CkExpression), s.rettype),
             body |-> FromAst(CkChunk, s.body),
             sym |-> Unresolved(s.name)]
      [] s.kind = "Return" ->
            [kind |-> "Return", val |-> FromAst(OptionOf(CkExpression), s.val)]
      [] s.kind = "Break" ->
            [kind |-> "Break", val |-> FromAst(OptionOf(CkExpression), s.val)]

\* impl FromAst for CkStatement.
FromAstCkStatement(a) ==
    [stmt |-> FromAstStmt(a.stmt), loc |-> a.loc]

\* impl FromAst for CkElseIf.
FromAstCkElseIf(a) ==
    [cond |-> FromAst(CkExpression, a.cond),
     body |-> FromAst(CkChunk, a.body),
     loc |-> a.loc]

\* impl FromAst for CkArg.
FromAstCkArg(a) ==
    [name |-> a.name,
     name_loc |-> a.name_loc,
     typ |-> FromAst(CkExpression, a.typ),
     loc |-> a.loc]

\* The match of impl FromAst for CkExpression.
FromAstExpr(e) ==
    CASE e.kind = "IntLit" -> [kind |-> "IntLit", i |-> e.i]
      [] e.kind = "BoolLit" -> [kind |-> "BoolLit", b |-> e.b]
      [] e.kind = "StringLit" -> [kind |-> "StringLit", s |-> e.s]
      [] e.kind = "Grouping" ->
            [kind |-> "Grouping", expr |-> FromAst(BoxOf(CkExpression), e.expr)]
      [] e.kind = "Ident" -> [kind |-> "Ident", id |-> Unresolved(e.id)]
      [] e.kind = "Binary" ->
            [kind |-> "Binary",
             lhs |-> FromAst(BoxOf(CkExpression), e.lhs),
             op |-> e.op,
             rhs |-> FromAst(BoxOf(CkExpression), e.rhs)]
      [] e.kind = "Unary" ->
            [kind |-> "Unary",
             op |-> e.op,
             expr |-> FromAst(BoxOf(CkExpression), e.expr)]
      [] e.kind = "FunCall" ->
            [kind |-> "FunCall",
             called |-> FromAst(BoxOf(CkExpression), e.called),
             args |-> FromAst(VecOf(CkExpression), e.args)]

\* impl FromAst for CkExpression.
FromAstCkExpression(a) ==
    [expr |-> FromAstExpr(a.expr), typ |-> TypeUnknown, loc |-> a.loc]

\* from_ast::<T>(ast) is T::from_ast(ast).
FromAst(T, a) ==
    CASE T[1] = "Option" -> FromAstOption(Tail(T), a)
      [] T[1] = "Vec" -> FromAstVec(Tail(T), a)
      [] T[1] = "Box" -> FromAstBox(Tail(T), a)
      [] T[1] = "CkChunk" -> FromAstCkChunk(a)
      [] T[1] = "CkStatement" -> FromAstCkStatement(a)
      [] T[1] = "CkElseIf" -> FromAstCkElseIf(a)
      [] T[1] = "CkArg" -> FromAstCkArg(a)
      [] T[1] = "CkExpression" -> FromAstCkExpression(a)

(***************************************************************************)
(* Raw ASTs handed to from_ast.  Every node has a location of its own.     *)
(***************************************************************************)
\* The longest list of statements and of call arguments.
MaxListLen == 2

SeqsUpTo(S, n) == UNION {[1..k -> S] : k \in 0..n}

IdentExpression(id, loc) == Expression([kind |-> "Ident", id |-> id], loc)

IntLitExpression(i, loc) == Expression([kind |-> "IntLit", i |-> i], loc)

FunCallExpression(called, args, loc) ==
    Expression([kind |-> "FunCall", called |-> called, args |-> args], loc)

SampleArguments == {IdentExpression("a", Span(40, 41)), IntLitExpression(1, Span(42, 43))}

SampleExpressions ==
    {IdentExpression("a", Span(0, 1)),
     IntLitExpression(1, Span(2, 3)),
     Expression([kind |-> "BoolLit", b |-> TRUE], Span(4, 8)),
     Expression([kind |-> "StringLit", s |-> "s"], Span(9, 12)),
     Expression([kind |-> "Grouping", expr |-> IntLitExpression(2, Span(14, 15))], Span(13, 16)),
     Expression([kind |-> "Binary",
                 lhs |-> IdentExpression("a", Span(17, 18)),
                 op |-> "Add",
                 rhs |-> IdentExpression("b", Span(19, 20))], Span(17, 20)),
     Expression([kind |-> "Unary", op |-> "Negation",
                 expr |-> IdentExpression("b", Span(22, 23))], Span(21, 23)),
     Expression([kind |-> "Binary",
                 lhs |-> Expression([kind |-> "Grouping",
                                     expr |-> FunCallExpression(
                                                 IdentExpression("f", Span(25, 26)),
                                                 <<IdentExpression("a", Span(27, 28)),
                                                   IntLitExpression(3, Span(29, 30))>>,
                                                 Span(25, 31))],
                                    Span(24, 32)),
                 op |-> "Mul",
                 rhs |-> Expression([kind |-> "Unary", op |-> "Not",
                                     expr |-> IdentExpression("c", Span(34, 35))],
                                    Span(33, 35))], Span(24, 35))}
    \cup {FunCallExpression(IdentExpression("g", Span(36, 37)), args, Span(36, 44)) :
            args \in SeqsUpTo(SampleArguments, MaxListLen)}

EmptyBody == Chunk(<<>>, Span(50, 50))

ReturnBody ==
    Chunk(<<Statement([kind |-> "Return", val |-> Some(IdentExpression("r", Span(52, 53)))],
                      Span(51, 53)),
            Statement([kind |-> "Break", val |-> None], Span(54, 55))>>,
          Span(51, 55))

SampleElseIfs ==
    <<ElseIf(IdentExpression("p", Span(60, 61)), EmptyBody, Span(60, 62)),
      ElseIf(IdentExpression("q", Span(63, 64)), ReturnBody, Span(63, 65))>>

SampleArgs ==
    <<Arg("n", Span(70, 71), IdentExpression("int", Span(72, 75)), Span(70, 75)),
      Arg("m", Span(76, 77), IdentExpression("bool", Span(78, 82)), Span(76, 82))>>

SampleStatements ==
    {Statement([kind |-> "Assignement", variable |-> "v", value |-> e], Span(100, 101)) :
        e \in SampleExpressions}
    \cup {Statement([kind |-> "VariableDef", vis |-> vis, name |-> "d",
                     name_loc |-> Span(102, 103), typ |-> typ, value |-> value],
                    Span(102, 110)) :
            vis \in {"Private", "Public"},
            typ \in {None, Some(IdentExpression("int", Span(104, 107)))},
            value \in {None, Some(IntLitExpression(4, Span(108, 109)))}}
    \cup {Statement([kind |-> "IfThenElse", cond |-> IdentExpression("c", Span(111, 112)),
                     body |-> ReturnBody, else_ifs |-> else_ifs, else_body |-> else_body],
                    Span(111, 120)) :
            else_ifs \in {<<>>, SampleElseIfs},
            else_body \in {None, Some(EmptyBody)}}
    \cup {Statement([kind |-> "DoBlock", body |-> ReturnBody], Span(121, 125)),
          Statement([kind |-> "FunCall", name |-> "print",
                     args |-> <<IdentExpression("a", Span(127, 128)),
                                IntLitExpression(5, Span(129, 130))>>], Span(126, 131)),
          Statement([kind |-> "While", cond |-> IdentExpression("w", Span(132, 133)),
                     body |-> ReturnBody], Span(132, 140)),
          Statement([kind |-> "For", variable |-> "i",
                     iterator |-> IdentExpression("it", Span(142, 144)),
                     body |-> EmptyBody], Span(141, 150)),
          Statement([kind |-> "Return", val |-> None], Span(170, 171)),
          Statement([kind |-> "Break", val |-> Some(IntLitExpression(6, Span(173, 174)))],
                    Span(172, 174))}
    \cup {Statement([kind |-> "FunDef", vis |-> "Public", name |-> "main",
                     name_loc |-> Span(152, 156), args |-> args, rettype |-> rettype,
                     body |-> ReturnBody], Span(151, 169)) :
            args \in {<<>>, SampleArgs},
            rettype \in {None, Some(IdentExpression("int", Span(157, 160)))}}

SampleChunks ==
    {Chunk(stmts, Span(0, 200)) : stmts \in SeqsUpTo(SampleStatements, MaxListLen)}

InitAst ==
    /\ New(0, <<>>)
    /\ overflow_checks = FALSE
    /\ panic = NoPanic
    /\ hist = <<>>
    /\ last_read = NoRead
    /\ reg_reads = {}
    /\ ast \in SampleChunks
    /\ ckast = NoAst

\* let ckast: CkChunk = from_ast(ast).
ConvertChunk ==
    /\ ckast = NoAst
    /\ ckast' = FromAst(CkChunk, ast)
    /\ UNCHANGED <<x, pc, program_end, stack_bottom, canary_end, program, stack, done,
                   panic, overflow_checks, hist, last_read, reg_reads, ast>>

NextAst ==
    ConvertChunk

SpecAst == InitAst /\ [][NextAst]_vars

(***************************************************************************)
(* Properties of step and run (under Spec).                                *)
(***************************************************************************)
\* A call has been made and it returned: no panic unwound it.
Returned == hist # <<>> /\ panic = NoPanic

\* Byte k of the instruction that the call e fetched.
InstByte(e, k) == ToInt(Read(e.stack, Plus(e.pc, k), Byte).val)

\* C1: every read of register 0 made by an instruction yields 0, whatever
\* the backing slot holds after earlier writes with destination 0; so a Mov
\* from register 0 leaves 0 in its destination.
C1_ZeroRegisterReads ==
    /\ \A p \in reg_reads : p[1] = 0 => p[2] = Zero
    /\ (/\ Returned
        /\ hist[1].op = "Mov"
        /\ InstByte(hist[1], 1) % 16 = 0
        /\ InstByte(hist[1], 1) \div 16 # 0)
       => x[InstByte(hist[1], 1) \div 16] = Zero

\* An instruction has read register 0 while its backing slot held a value
\* other than 0.
C1_Witness ==
    /\ Returned
    /\ hist[1].x[0] # Zero
    /\ \E p \in reg_reads : p[1] = 0

\* C2: a Call at address A that returns has stored A + 5, the address of
\* the instruction after the Call, as the Double at the new [sp].
C2_CallStoresNextInstruction ==
    (Returned /\ hist[1].op = "Call")
    => Read(stack, x[SP], Double) = [panic |-> NoPanic, val |-> Plus(hist[1].pc, 5)]

\* C3: whenever run returns normally, done is set.
C3_RunReturnsDone == (Returned /\ hist[1].call = "run") => done

\* The last three calls were steps that executed LiD r,v; Push r; Pop r' laid
\* out one after the other, the first one made with at least 8 free bytes
\* of stack below sp.
LifoSequence ==
    /\ Len(hist) >= 3
    /\ hist[3].op = "LiD" /\ hist[2].op = "Push" /\ hist[1].op = "Pop"
    /\ hist[2].pc = Plus(hist[3].pc, 10)
    /\ hist[1].pc = Plus(hist[2].pc, 2)
    /\ InstByte(hist[3], 1) % 16 = InstByte(hist[2], 1) % 16
    /\ Le(Plus(stack_top, 8), hist[3].x[SP])
    /\ Le(hist[3].x[SP], stack_bottom)

\* r, v and r' of the sequence.
LifoSource == InstByte(hist[3], 1) % 16

LifoValue == Read(hist[3].stack, Plus(hist[3].pc, 2), Double).val

LifoDest == InstByte(hist[1], 1) % 16

\* r' reads as v and sp is what it was before the sequence.
LifoHolds ==
    /\ panic = NoPanic
    /\ RegRead(x, LifoDest) = LifoValue
    /\ x[SP] = hist[3].x[SP]

\* C4 (as stated): for any registers r and r' and any value v, LiD r,v;
\* Push r; Pop r' started with at least 8 free bytes of stack leaves r' == v
\* and sp as it was before the sequence.
C4_LifoAnyRegisters == LifoSequence => LifoHolds

\* C4 (amended): the same for r and r' among the general registers 1..14,
\* that is neither the zero register nor sp.
C4_LifoGeneralRegisters ==
    (LifoSequence /\ LifoSource \in 1..14 /\ LifoDest \in 1..14) => LifoHolds

\* The sequence has run on general registers, below an earlier push, with a
\* value that differs in every byte.
C4_Witness ==
    /\ LifoSequence
    /\ LifoSource \in 1..14 /\ LifoDest \in 1..14
    /\ LifoValue = Bytes1to8
    /\ hist[3].x[SP] # stack_bottom
    /\ panic = NoPanic

\* imm16 as a sign-extended 64-bit addend.
SignExtend16(imm16) ==
    IF imm16 >= 32768 THEN WrappingSub(Zero, FromInt(65536 - imm16)) ELSE FromInt(imm16)

\* The last call was a step on a load (a store) whose operands could be read.
LoadStepped ==
    /\ hist # <<>>
    /\ hist[1].op \in {"LdB", "LdH", "LdW", "LdD"}
    /\ DecodeRegImm16Reg(hist[1]).panic = NoPanic

StoreStepped ==
    /\ hist # <<>>
    /\ hist[1].op \in {"StB", "StH", "StW", "StD"}
    /\ DecodeRegImm16Reg(hist[1]).panic = NoPanic

\* [r] + sign_extend(imm16) mod 2^64, r being operand `reg` of the last step.
SignExtendedAddress(reg) ==
    WrappingAdd(RegRead(hist[1].x, reg), SignExtend16(DecodeRegImm16Reg(hist[1]).imm16))

\* C5: LdS rd,rs,imm16 reads at ([rs] + sign_extend(imm16)) mod 2^64 and
\* StS r1,r2,imm16 writes at ([r1] + sign_extend(imm16)) mod 2^64: the step
\* does what a read (a write) at that address does.
C5_SignExtendedAddressing ==
    /\ LoadStepped =>
          /\ panic = Read(hist[1].stack, SignExtendedAddress(DecodeRegImm16Reg(hist[1]).reg2),
                          SizeOf(hist[1].op)).panic
          /\ panic = NoPanic =>
                x[DecodeRegImm16Reg(hist[1]).reg1]
                  = Read(hist[1].stack, SignExtendedAddress(DecodeRegImm16Reg(hist[1]).reg2),
                         SizeOf(hist[1].op)).val
    /\ StoreStepped =>
          /\ panic = Write(hist[1].stack, SignExtendedAddress(DecodeRegImm16Reg(hist[1]).reg1),
                           SizeOf(hist[1].op),
                           RegRead(hist[1].x, DecodeRegImm16Reg(hist[1]).reg2)).panic
          /\ stack = Write(hist[1].stack, SignExtendedAddress(DecodeRegImm16Reg(hist[1]).reg1),
                           SizeOf(hist[1].op),
                           RegRead(hist[1].x, DecodeRegImm16Reg(hist[1]).reg2)).stack

\* C6: a step that traps leaves the Vm terminated: done is set.
C6_TrapSetsDone == (hist # <<>> /\ panic # NoPanic) => done

\* C7: after a step that completed without trapping, and with done not set,
\* pc lies within [PROGRAM_START, program_end].
C7_PcWithinProgram ==
    (Returned /\ ~done) => (Le(FromInt(PROGRAM_START), pc) /\ Le(pc, program_end))

\* C8: after a step that completed without trapping, sp (register 15) lies
\* within [stack_top, stack_bottom].
C8_SpWithinStack == Returned => (Le(stack_top, x[SP]) /\ Le(x[SP], stack_bottom))

(***************************************************************************)
(* Properties of read and write (under SpecMem).                           *)
(***************************************************************************)
\* The last call of write, with no read made since.
Wrote == hist # <<>> /\ hist[1].call = "write"

JustWrote == Wrote /\ ~last_read.made

\* [a, a + size) lies inside the stack region [stack_top, stack_bottom).
InsideStack(a, size) ==
    /\ Le(stack_top, a)
    /\ Lt(a, stack_bottom)
    /\ ToInt(WrappingSub(stack_bottom, a)) >= size

\* v mod 2^(8 * size)
Masked(v, size) ==
    CASE size = 1 -> <<v[1] % 256, 0, 0, 0>>
      [] size = 2 -> <<v[1], 0, 0, 0>>
      [] size = 4 -> <<v[1], v[2], 0, 0>>
      [] size = 8 -> v

\* Bits 8i .. 8i+7 of v.
BitsOfByte(v, i) == (v[(i \div 2) + 1] \div (IF i % 2 = 0 THEN 1 ELSE 256)) % 256

\* The byte of the stack buffer at address a.
StackByteAt(a) == stack[ToInt(WrappingSub(a, stack_top)) + 1]

\* The read made since the last write was of what that write wrote.
ReadBack ==
    /\ Wrote
    /\ last_read.made
    /\ last_read.addr = hist[1].addr
    /\ last_read.size = hist[1].size

\* C9: for every size S, value v and address a with [a, a + S) inside the
\* stack region, write(a, S, v) returns, the byte it leaves at a + i is bits
\* 8i..8i+7 of v, and a read(a, S) that follows returns v mod 2^(8S).
C9_RoundTripLittleEndian ==
    (Wrote /\ InsideStack(hist[1].addr, hist[1].size)) =>
        /\ JustWrote => panic = NoPanic
        /\ \A i \in 0..(hist[1].size - 1) :
              StackByteAt(Plus(hist[1].addr, i)) = BitsOfByte(hist[1].value, i)
        /\ ReadBack =>
              /\ panic = NoPanic
              /\ last_read.ret = Masked(hist[1].value, hist[1].size)

\* A word written inside the stack region, away from its start, has been read
\* back, and the read gave less than the value written.
C9_Witness ==
    /\ ReadBack
    /\ InsideStack(hist[1].addr, hist[1].size)
    /\ hist[1].size = Word
    /\ hist[1].addr # stack_top
    /\ panic = NoPanic
    /\ last_read.ret # hist[1].value

\* The program region of the layout: [PROGRAM_START, PROGRAM_START + P - 1].
InProgramRegion(a) == Le(FromInt(PROGRAM_START), a) /\ Lt(a, program_end)

\* The panics that stand for an access violation.
AccessViolations ==
    {PanicReadSpecial, PanicWriteSpecial, PanicUnknownAddress, PanicSliceIndex}

\* C10: read(addr, size) traps for every addr outside the program region
\* [256, 256+P-1] and the stack region; write(addr, size, v) traps as a write
\* to read-only memory for every addr in the program region and as an access
\* violation for every other addr outside the stack region, the gap address
\* 256+P included.
C10_TrapTotality ==
    /\ (last_read.made /\ ~InProgramRegion(last_read.addr) /\ ~InStackRange(last_read.addr))
       => panic \in AccessViolations
    /\ (JustWrote /\ InProgramRegion(hist[1].addr)) => panic = PanicWriteProgram
    /\ (JustWrote /\ ~InProgramRegion(hist[1].addr) /\ ~InStackRange(hist[1].addr))
       => panic \in AccessViolations

\* [a, a + size) starts inside the program region or the stack region and
\* runs past the last byte of that region.
Straddles(a, size) ==
    \/ InProgramRegion(a) /\ ToInt(WrappingSub(program_end, a)) < size
    \/ InStackRange(a) /\ ToInt(WrappingSub(stack_bottom, a)) < size

\* C11: a read or a write whose range starts inside the program or the
\* stack region and runs past that region's last byte traps, and the
\* trapping write changes no byte of the stack or of the program.
C11_NoStraddling ==
    /\ (last_read.made /\ Straddles(last_read.addr, last_read.size)) => panic # NoPanic
    /\ (JustWrote /\ Straddles(hist[1].addr, hist[1].size)) =>
          /\ panic # NoPanic
          /\ stack = hist[1].stack
          /\ \A i \in 1..Len(program) :
                Read(stack, FromInt(PROGRAM_START + i - 1), Byte).val = FromInt(program[i])

\* A Double has been written at stack_bottom - 4, inside a stack of at least
\* 4 bytes.
C11_Witness ==
    /\ JustWrote
    /\ hist[1].addr = WrappingSub(stack_bottom, FromInt(4))
    /\ hist[1].size = Double
    /\ InStackRange(hist[1].addr)
    /\ panic = PanicSliceIndex

\* a < b for unsigned 64-bit a and b: the most significant limb that differs
\* decides.
UnsignedLess(a, b) ==
    \E i \in 1..Limbs : a[i] < b[i] /\ \A j \in (i + 1)..Limbs : a[j] = b[j]

\* The last call was a step on a conditional branch whose operands could be
\* read.
BranchStepped ==
    /\ hist # <<>>
    /\ hist[1].op \in {"Beq", "Bne", "Blt", "Bge"}
    /\ DecodeRegImm16Reg(hist[1]).panic = NoPanic

\* The condition of that branch on [r1] and [r2] as unsigned values.
BranchCondition ==
    CASE hist[1].op = "Beq" ->
            RegRead(hist[1].x, DecodeRegImm16Reg(hist[1]).reg1)
              = RegRead(hist[1].x, DecodeRegImm16Reg(hist[1]).reg2)
      [] hist[1].op = "Bne" ->
            RegRead(hist[1].x, DecodeRegImm16Reg(hist[1]).reg1)
              # RegRead(hist[1].x, DecodeRegImm16Reg(hist[1]).reg2)
      [] hist[1].op = "Blt" ->
            UnsignedLess(RegRead(hist[1].x, DecodeRegImm16Reg(hist[1]).reg1),
                         RegRead(hist[1].x, DecodeRegImm16Reg(hist[1]).reg2))
      [] hist[1].op = "Bge" ->
            ~UnsignedLess(RegRead(hist[1].x, DecodeRegImm16Reg(hist[1]).reg1),
                          RegRead(hist[1].x, DecodeRegImm16Reg(hist[1]).reg2))

\* C12: Beq/Bne/Blt/Bge at A compare [r1] and [r2] as unsigned 64-bit
\* values; pc becomes A + 4 + imm16 (imm16 zero-extended) when the condition
\* holds and A + 4 otherwise; no register and no memory byte changes.
C12_ConditionalBranches ==
    BranchStepped =>
        /\ panic = NoPanic
        /\ pc = IF BranchCondition
                THEN Plus(hist[1].pc, 4 + DecodeRegImm16Reg(hist[1]).imm16)
                ELSE Plus(hist[1].pc, 4)
        /\ x = hist[1].x
        /\ stack = hist[1].stack

\* A Bge has been taken on a first operand with the top bit set, against a
\* smaller second operand.
C12_Witness ==
    /\ BranchStepped
    /\ hist[1].op = "Bge"
    /\ RegRead(hist[1].x, DecodeRegImm16Reg(hist[1]).reg1) = AllOnes
    /\ RegRead(hist[1].x, DecodeRegImm16Reg(hist[1]).reg2) = Zero
    /\ DecodeRegImm16Reg(hist[1]).imm16 > 0
    /\ pc = Plus(hist[1].pc, 4 + DecodeRegImm16Reg(hist[1]).imm16)

\* The length in bytes of the instructions that are not control flow.
InstructionLength(op) ==
    CASE op \in {"Add", "Sub", "Mul", "Div", "Rem", "Clt", "Cge", "Ceq", "Cne",
                 "And", "Or", "Xor", "LiB"} -> 3
      [] op \in {"LdB", "LdH", "LdW", "LdD", "StB", "StH", "StW", "StD", "LiH"} -> 4
      [] op = "LiW" -> 6
      [] op = "LiD" -> 10
      [] op \in {"Mov", "Push", "Pop"} -> 2

StraightLine ==
    {"Add", "Sub", "Mul", "Div", "Rem", "Clt", "Cge", "Ceq", "Cne", "And", "Or", "Xor",
     "LdB", "LdH", "LdW", "LdD", "StB", "StH", "StW", "StD",
     "LiB", "LiH", "LiW", "LiD", "Mov", "Push", "Pop"}

\* Scenario S1.
ScenarioS1 == LiB(1, 3) \o LiB(2, 4) \o EncA("Add", "X", 3, 1, 2)

\* C13: an instruction that is not control flow and does not trap leaves
\* pc = pc_before + L, L being its length; so S1 (LiB r1,3; LiB r2,4;
\* Add.X r3,r1,r2) ends with x3 = 7 and pc = PROGRAM_START + 9.
C13_PcAdvancement ==
    /\ (Returned /\ hist[1].op \in StraightLine)
       => pc = Plus(hist[1].pc, InstructionLength(hist[1].op))
    /\ (Returned /\ program = ScenarioS1 /\ hist[1].op = "Add")
       => (x[3] = FromInt(7) /\ pc = FromInt(PROGRAM_START + 9))

\* S1 has run to its end.
C13_Witness ==
    /\ Returned
    /\ program = ScenarioS1
    /\ Len(hist) = 3
    /\ hist[1].op = "Add"
    /\ pc = FromInt(PROGRAM_START + 9)

\* The last three calls were steps on a Call, on one instruction of the
\* callee that left sp as it found it, and on a Ret.
CallCalleeRet ==
    /\ Len(hist) >= 3
    /\ hist[3].op = "Call" /\ hist[1].op = "Ret"
    /\ hist[1].x[SP] = hist[2].x[SP]

\* C14: a Call that returns has moved sp down by exactly 8 and stored a
\* Double there; a Ret that returns has read pc from [sp] and then moved sp
\* up by exactly 8; so after Call T; <callee that leaves sp balanced>; Ret,
\* sp is what it was before the Call.
C14_CallRetBalance ==
    /\ (Returned /\ hist[1].op = "Call") =>
          /\ Plus(x[SP], 8) = hist[1].x[SP]
          /\ Lt(x[SP], hist[1].x[SP])
          /\ Read(stack, x[SP], Double).panic = NoPanic
          /\ \A i \in 1..Len(stack) :
                (i <= ToInt(WrappingSub(x[SP], stack_top))
                 \/ i > ToInt(WrappingSub(x[SP], stack_top)) + 8)
                => stack[i] = hist[1].stack[i]
    /\ (Returned /\ hist[1].op = "Ret") =>
          /\ x[SP] = Plus(hist[1].x[SP], 8)
          /\ pc = Read(hist[1].stack, hist[1].x[SP], Double).val
          /\ stack = hist[1].stack
    /\ (Returned /\ CallCalleeRet) => x[SP] = hist[3].x[SP]

\* Call f; ...; f: LiB r1,42; Ret has run up to the return.
C14_Witness ==
    /\ Returned
    /\ CallCalleeRet
    /\ hist[2].op = "LiB"
    /\ x[SP] = stack_bottom

\* v lies within [stack_top, stack_bottom].
WithinStack(v) == Le(stack_top, v) /\ Le(v, stack_bottom)

\* The last call was a step on one of `ops`, made with sp within
\* [stack_top, stack_bottom].
StackStepped(ops) ==
    /\ hist # <<>>
    /\ hist[1].op \in ops
    /\ WithinStack(hist[1].x[SP])

\* C15: with sp within [stack_top, stack_bottom], Push or Call traps when
\* sp - 8 < stack_top, Pop or Ret traps when sp + 8 > stack_bottom, and none
\* of the four returns normally with sp outside [stack_top, stack_bottom].
C15_StackOverflowUnderflow ==
    /\ (StackStepped({"Push", "Call"}) /\ Lt(hist[1].x[SP], Plus(stack_top, 8)))
       => panic # NoPanic
    /\ (StackStepped({"Pop", "Ret"}) /\ Lt(stack_bottom, Plus(hist[1].x[SP], 8)))
       => panic # NoPanic
    /\ (StackStepped({"Push", "Call", "Pop", "Ret"}) /\ panic = NoPanic)
       => WithinStack(x[SP])

\* In the S3 layout the Beq is at PROGRAM_START + 6, LiB r3,1 at
\* PROGRAM_START + 10 and LiB r3,2 at PROGRAM_START + 13.  Running prog, the
\* Beq is taken to LiB r3,2, which is the next instruction executed and
\* leaves x3 = 2; LiB r3,1 is never executed.
BranchSkipsFirstLiB(prog) ==
    program = prog =>
        /\ (hist # <<>> /\ hist[1].pc = FromInt(PROGRAM_START + 6)) =>
              /\ hist[1].op = "Beq"
              /\ panic = NoPanic
              /\ pc = FromInt(PROGRAM_START + 13)
        /\ (Len(hist) >= 2 /\ hist[2].pc = FromInt(PROGRAM_START + 6)) =>
              /\ hist[1].pc = FromInt(PROGRAM_START + 13)
              /\ hist[1].op = "LiB"
              /\ panic = NoPanic
              /\ x[3] = FromInt(2)
        /\ \A i \in 1..Len(hist) : hist[i].pc # FromInt(PROGRAM_START + 10)
        /\ x[3] # FromInt(1)

\* C16 (as stated): S3 with Beq displacement imm16 = 2 skips LiB r3,1,
\* executes LiB r3,2 next and ends with x3 == 2.
C16_ScenarioS3 == BranchSkipsFirstLiB(ScenarioS3)

\* C16 (amended): the same with Beq displacement imm16 = 3, the length of
\* the skipped LiB r3,1.
C16_ScenarioS3Displacement3 == BranchSkipsFirstLiB(ScenarioS3Skipping)

\* S3 with displacement 3 has run through the instruction after the branch.
C16_Witness ==
    /\ program = ScenarioS3Skipping
    /\ Len(hist) >= 2
    /\ hist[2].pc = FromInt(PROGRAM_START + 6)
    /\ hist[1].op = "LiB"
    /\ x[3] = FromInt(2)

\* The last call was a step on op in `ops` with funct X whose operands could
\* be read.
IntegerStepped(ops) ==
    /\ hist # <<>>
    /\ hist[1].op \in ops
    /\ DecodeArithmetic(hist[1]).panic = NoPanic
    /\ DecodeArithmetic(hist[1]).funct = "X"

\* [rs1] and [rs2] of that step.
FirstOperand == RegRead(hist[1].x, DecodeArithmetic(hist[1]).rs1)

SecondOperand == RegRead(hist[1].x, DecodeArithmetic(hist[1]).rs2)

\* The comparison of that step on unsigned 64-bit values.
ComparisonHolds ==
    CASE hist[1].op = "Clt" -> UnsignedLess(FirstOperand, SecondOperand)
      [] hist[1].op = "Cge" -> ~UnsignedLess(FirstOperand, SecondOperand)
      [] hist[1].op = "Ceq" -> FirstOperand = SecondOperand
      [] hist[1].op = "Cne" -> FirstOperand # SecondOperand

\* C17: Clt/Cge/Ceq/Cne with funct X write 1 into rd when the comparison of
\* [rs1] and [rs2] as unsigned 64-bit integers holds and 0 otherwise, and
\* change nothing else except pc.
C17_IntegerComparison ==
    IntegerStepped({"Clt", "Cge", "Ceq", "Cne"}) =>
        /\ panic = NoPanic
        /\ x = [hist[1].x EXCEPT ![DecodeArithmetic(hist[1]).rd] =
                    IF ComparisonHolds THEN <<1, 0, 0, 0>> ELSE <<0, 0, 0, 0>>]
        /\ stack = hist[1].stack
        /\ pc = Plus(hist[1].pc, 3)

\* Clt on [rs1] = 2^64 - 1 and [rs2] = 0 has written 0.
C17_Witness ==
    /\ IntegerStepped({"Clt"})
    /\ FirstOperand = AllOnes
    /\ SecondOperand = Zero
    /\ DecodeArithmetic(hist[1]).rd # 0
    /\ x[DecodeArithmetic(hist[1]).rd] = Zero

\* C18: Div or Rem with funct X and [rs2] == 0 traps and writes no register
\* (rd included): the step produces no result.
C18_DivisionByZero ==
    (IntegerStepped({"Div", "Rem"}) /\ SecondOperand = Zero) =>
        /\ panic # NoPanic
        /\ x = hist[1].x
        /\ stack = hist[1].stack

\* A Rem by a register other than register 0 that holds 0 has trapped, the
\* dividend not being 0.
C18_Witness ==
    /\ IntegerStepped({"Rem"})
    /\ DecodeArithmetic(hist[1]).rs2 # 0
    /\ SecondOperand = Zero
    /\ FirstOperand # Zero
    /\ panic = PanicRemZero

\* An identifier site holds Unresolved with the original name.
UnresolvedSite(slot, name) ==
    /\ slot.tag = "Unresolved"
    /\ slot.name = name

RECURSIVE SameShape(_, _, _)

\* Two lists of T: the same count, and the same shape item by item in order.
SameShapeList(T, raw, ck) ==
    /\ Len(ck) = Len(raw)
    /\ \A i \in 1..Len(raw) : SameShape(T, raw[i], ck[i])

SameShapeOption(T, raw, ck) ==
    /\ ck.some = raw.some
    /\ raw.some => SameShape(T, raw.val, ck.val)

SameShapeExpr(raw, ck) ==
    /\ ck.kind = raw.kind
    /\ raw.kind = "Grouping" => SameShape("Expression", raw.expr, ck.expr)
    /\ raw.kind = "Ident" => UnresolvedSite(ck.id, raw.id)
    /\ raw.kind = "Binary" =>
        /\ SameShape("Expression", raw.lhs, ck.lhs)
        /\ SameShape("Expression", raw.rhs, ck.rhs)
    /\ raw.kind = "Unary" => SameShape("Expression", raw.expr, ck.expr)
    /\ raw.kind = "FunCall" =>
        /\ SameShape("Expression", raw.called, ck.called)
        /\ SameShapeList("Expression", raw.args, ck.args)

SameShapeStmt(raw, ck) ==
    /\ ck.kind = raw.kind
    /\ raw.kind = "Assignement" =>
        /\ UnresolvedSite(ck.variable, raw.variable)
        /\ SameShape("Expression", raw.value, ck.value)
    /\ raw.kind = "VariableDef" =>
        /\ ck.name_loc = raw.name_loc
        /\ SameShapeOption("Expression", raw.typ, ck.typ)
        /\ SameShapeOption("Expression", raw.value, ck.value)
        /\ UnresolvedSite(ck.sym, raw.name)
    /\ raw.kind = "IfThenElse" =>
        /\ SameShape("Expression", raw.cond, ck.cond)
        /\ SameShape("Chunk", raw.body, ck.body)
        /\ SameShapeList("ElseIf", raw.else_ifs, ck.else_ifs)
        /\ SameShapeOption("Chunk", raw.else_body, ck.else_body)
    /\ raw.kind = "DoBlock" => SameShape("Chunk", raw.body, ck.body)
    /\ raw.kind = "FunCall" =>
        /\ UnresolvedSite(ck.name, raw.name)
        /\ SameShapeList("Expression", raw.args, ck.args)
    /\ raw.kind = "While" =>
        /\ SameShape("Expression", raw.cond, ck.cond)
        /\ SameShape("Chunk", raw.body, ck.body)
    /\ raw.kind = "For" =>
        /\ SameShape("Expression", raw.iterator, ck.iterator)
        /\ SameShape("Chunk", raw.body, ck.body)
    /\ raw.kind = "FunDef" =>
        /\ ck.name_loc = raw.name_loc
        /\ SameShapeList("Arg", raw.args, ck.args)
        /\ SameShapeOption("Expression", raw.rettype, ck.rettype)
        /\ SameShape("Chunk", raw.body, ck.body)
        /\ UnresolvedSite(ck.sym, raw.name)
    /\ raw.kind \in {"Return", "Break"} => SameShapeOption("Expression", raw.val, ck.val)

\* ck is a checked node of the raw node's shape, at the same location, with
\* every identifier site unresolved and every expression of unknown type.
SameShape(node, raw, ck) ==
    /\ ck.loc = raw.loc
    /\ node = "Chunk" => SameShapeList("Statement", raw.stmts, ck.stmts)
    /\ node = "Statement" => SameShapeStmt(raw.stmt, ck.stmt)
    /\ node = "ElseIf" =>
        /\ SameShape("Expression", raw.cond, ck.cond)
        /\ SameShape("Chunk", raw.body, ck.body)
    /\ node = "Arg" =>
        /\ ck.name_loc = raw.name_loc
        /\ SameShape("Expression", raw.typ, ck.typ)
    /\ node = "Expression" =>
        /\ ck.typ = "Unknown"
        /\ SameShapeExpr(raw.expr, ck.expr)

\* C19: once from_ast has returned, the checked AST has the shape of the raw
\* AST (the same variants, the same count and order of children in every
\* list, the same locations), every identifier site (assignment target,
\* called function name, identifier expression, definition symbol) is
\* Unresolved with the original name, and every expression's typ is Unknown.
C19_FromAstSameShape ==
    ckast # NoAst => SameShape("Chunk", ast, ckast)

\* from_ast has converted a chunk of two statements, an if with two else-if
\* arms and an else body followed by an assignment of a call with two
\* arguments.
C19_Witness ==
    /\ ckast # NoAst
    /\ Len(ckast.stmts) = 2
    /\ ckast.stmts[1].stmt.kind = "IfThenElse"
    /\ Len(ckast.stmts[1].stmt.else_ifs) = 2
    /\ ckast.stmts[1].stmt.else_body.some
    /\ ckast.stmts[2].stmt.kind = "Assignement"
    /\ ckast.stmts[2].stmt.value.expr.kind = "FunCall"
    /\ Len(ckast.stmts[2].stmt.value.expr.args) = 2
    /\ ckast.stmts[2].stmt.value.expr.args[1].expr.kind = "Ident"
    /\ ckast.stmts[2].stmt.value.expr.args[2].expr.kind = "IntLit"


\* The last call was a step on a Jze whose operands could be read.
JzeStepped ==
    /\ hist # <<>>
    /\ hist[1].op = "Jze"
    /\ DecodeRegImm16Reg(hist[1]).panic = NoPanic

\* C20: Jze r1,r2,imm16 at A leaves pc = ((A + 4) + sign_extend(imm16)) + [r1]
\* (mod 2^64) when [r2] == 0 and pc = A + 4 otherwise; no register and no
\* memory byte changes.
C20_JzeSignExtended ==
    JzeStepped =>
        /\ panic = NoPanic
        /\ pc = IF RegRead(hist[1].x, DecodeRegImm16Reg(hist[1]).reg2) = Zero
                THEN WrappingAdd(WrappingAdd(Plus(hist[1].pc, 4),
                                             SignExtend16(DecodeRegImm16Reg(hist[1]).imm16)),
                                 RegRead(hist[1].x, DecodeRegImm16Reg(hist[1]).reg1))
                ELSE Plus(hist[1].pc, 4)
        /\ x = hist[1].x
        /\ stack = hist[1].stack

\* The last step was a store (a load) that returned.
StoreReturned == StoreStepped /\ panic = NoPanic

LoadReturned == LoadStepped /\ panic = NoPanic

\* Address a lies in [ea, ea + size), wrapping.
InSpan(a, ea, size) == Lt(WrappingSub(a, ea), FromInt(size))

\* The store's frame for effective address ea: the stack bytes at
\* [ea, ea + S) are the low S bytes of [r2], every other stack byte and every
\* register is as before.
StoreFrame(ea) ==
    /\ x = hist[1].x
    /\ \E i \in 1..Len(stack) : InSpan(Plus(stack_top, i - 1), ea, SizeOf(hist[1].op))
    /\ \A i \in 1..Len(stack) :
          stack[i] = IF InSpan(Plus(stack_top, i - 1), ea, SizeOf(hist[1].op))
                     THEN BitsOfByte(RegRead(hist[1].x, DecodeRegImm16Reg(hist[1]).reg2),
                                     ToInt(WrappingSub(Plus(stack_top, i - 1), ea)))
                     ELSE hist[1].stack[i]

\* The load's frame for effective address ea: rd holds the S bytes at ea
\* zero-extended, no memory byte and no other register changes.
LoadFrame(ea) ==
    /\ stack = hist[1].stack
    /\ \A i \in 0..(NREGS - 1) \ {DecodeRegImm16Reg(hist[1]).reg1} : x[i] = hist[1].x[i]
    /\ Read(hist[1].stack, ea, SizeOf(hist[1].op)).panic = NoPanic
    /\ x[DecodeRegImm16Reg(hist[1]).reg1] = Read(hist[1].stack, ea, SizeOf(hist[1].op)).val

\* C21: a StS r1,r2,imm16 that returns changes exactly the S stack bytes at
\* [ea, ea + S), ea = [r1] + sign_extend(imm16), to the low S bytes of [r2]
\* and leaves every other stack byte and every register unchanged; a LdS
\* rd,rs,imm16 that returns writes the S bytes at ea = [rs] +
\* sign_extend(imm16), zero-extended, into rd and changes no memory byte and
\* no other register.
C21_StoreLoadFrame ==
    /\ StoreReturned => StoreFrame(SignExtendedAddress(DecodeRegImm16Reg(hist[1]).reg1))
    /\ LoadReturned => LoadFrame(SignExtendedAddress(DecodeRegImm16Reg(hist[1]).reg2))

\* The Vm is as Vm::new left it.
Constructed == hist = <<>> /\ panic = NoPanic /\ ast = NoAst

\* The regions the Vm's checks tell apart, and the canary from canary_start()
\* to the canary_end field (the heap starts right after it), as sets of small
\* addresses.
ProgramRegion == {a \in 0..(ToInt(heap_base) + 1) : InProgramRange(FromInt(a))}

StackRegion == {a \in 0..(ToInt(heap_base) + 1) : InStackRange(FromInt(a))}

SpecialRegion == {a \in 0..(ToInt(heap_base) + 1) : InSpecial(FromInt(a))}

CanaryRegion == ToInt(canary_start)..ToInt(canary_end)

\* C22: at construction with a program of P bytes and a stack of S bytes the
\* program region is [256, 256 + P - 1], address 256 + P is in no region,
\* stack_top = 256 + P + 1, stack_bottom = stack_top + S, sp = stack_bottom,
\* the canary is the 1024 addresses [stack_bottom + 1, stack_bottom + 1024],
\* the heap base is stack_bottom + 1025, and the regions are pairwise disjoint.
C22_RegionLayout ==
    Constructed =>
        /\ ProgramRegion = 256..(256 + Len(program) - 1)
        /\ (256 + Len(program)) \notin (SpecialRegion \cup ProgramRegion \cup StackRegion
                                        \cup CanaryRegion)
        /\ ToInt(stack_top) = 256 + Len(program) + 1
        /\ ToInt(stack_bottom) = ToInt(stack_top) + Len(stack)
        /\ StackRegion = ToInt(stack_top)..(ToInt(stack_bottom) - 1)
        /\ x[SP] = stack_bottom
        /\ CanaryRegion = (ToInt(stack_bottom) + 1)..(ToInt(stack_bottom) + 1024)
        /\ ToInt(heap_base) = ToInt(stack_bottom) + 1025
        /\ SpecialRegion \cap ProgramRegion = {}
        /\ SpecialRegion \cap StackRegion = {}
        /\ ProgramRegion \cap StackRegion = {}
        /\ CanaryRegion \cap (SpecialRegion \cup ProgramRegion \cup StackRegion) = {}
        /\ ToInt(heap_base) \notin (SpecialRegion \cup ProgramRegion \cup StackRegion
                                    \cup CanaryRegion)

\* C23: in every state reached from new by step and run calls, on any
\* program, done = false: no instruction and no entry point sets it.
C23_DoneNeverSet == done = FALSE

\* Steps and a run have been made, the run after a step, and the last call
\* trapped: done is still false.
C23_Witness ==
    /\ Len(hist) = HistLen
    /\ hist[1].call = "run"
    /\ hist[2].call = "step"
    /\ panic # NoPanic
    /\ done = FALSE

\* C24: no call changes a byte of the program image, and every memory byte a
\* call changes is a byte of the stack buffer at an address in
\* [stack_top, stack_bottom): no other byte comes to hold a value.  This
\* covers Push, Call and StS made with any sp or base register, trapping or
\* not.
C24_ProgramImmutable ==
    [][/\ program' = program
       /\ DOMAIN stack' = DOMAIN stack
       /\ \A i \in DOMAIN stack :
             stack'[i] # stack[i] => InStackRange(Plus(stack_top, i - 1))]_vars

\* A store whose base register is outside the stack region has returned and
\* changed the stack, after a Push.
C24_Witness ==
    /\ Len(hist) >= 2
    /\ hist[1].op \in {"StB", "StH", "StW", "StD"}
    /\ hist[2].op = "Push"
    /\ ~InStackRange(RegRead(hist[1].x, DecodeRegImm16Reg(hist[1]).reg1))
    /\ panic = NoPanic
    /\ stack # hist[1].stack
    /\ program # <<>>

\* C25: after any sequence of steps, debug_regs reports 0 for zr: an
\* instruction with destination register 0 makes no non-zero value visible.
C25_ZeroRegisterBackingSlot == hist # <<>> => debug_regs.zr = Zero

====
